---- MODULE Spec2Model ----
(***************************************************************************)
(* Model of the trip planner's optimisation-and-assembly engine:           *)
(*   src/src/pages/ItineraryPage.jsx  (OptimizedItinerary component)       *)
(*   src/src/utils/tripState.js       (session-scoped trip store)          *)
(*                                                                         *)
(* Strings are sequences of one-character strings, so that includes(),     *)
(* toLowerCase() and trim() are computed and not assumed.  A Date is its   *)
(* timestamp counted in ticks, TicksPerDay ticks to a day, so that two     *)
(* dates of the same calendar day can differ in their time of day, as two  *)
(* JavaScript Date objects can.                                            *)
(***************************************************************************)
EXTENDS Integers, Sequences, FiniteSets, TLC

VARIABLES
    tripState,      \* the trip store document (sessionStorage, tripState.js)
    args,           \* arguments of the pending createDayByDayItinerary call
    itineraryData,  \* React state itineraryData of OptimizedItinerary
    rangeCall,      \* a call of buildDateRange: its arguments and result
    optCall,        \* a call of the optimize operation: request and response
    priceCall,      \* a render of the cost summary: its inputs and results
    page,           \* loading, error and the generateItinerary calls in flight
    matchCall       \* a run of the flight direction matching: inputs, result

vars == <<tripState, args, itineraryData, rangeCall, optCall, priceCall, page,
         matchCall>>

----------------------------------------------------------------------------
(* Bounds of the model *)

\* ticks per calendar day: the resolution of a Date's time of day
TicksPerDay == 2
\* the last calendar day a date input may name (days are 0..MaxDay)
MaxDay == 4
\* the longest must-do list stored in the trip store
MaxMustDo == 3
\* the largest regular-activity pool handed to the assembler
MaxPool == 3

----------------------------------------------------------------------------
(* Strings *)

\* String.prototype.includes
Includes(s, sub) ==
    \E i \in 0..(Len(s) - Len(sub)) : SubSeq(s, i + 1, i + Len(sub)) = sub

LowerChar(c) ==
    CASE c = "A" -> "a"
      [] c = "B" -> "b"
      [] c = "C" -> "c"
      [] OTHER -> c

\* String.prototype.toLowerCase
ToLowerCase(s) == [i \in 1..Len(s) |-> LowerChar(s[i])]

RECURSIVE TrimStart(_)
TrimStart(s) == IF s # <<>> /\ Head(s) = " " THEN TrimStart(Tail(s)) ELSE s

RECURSIVE TrimEnd(_)
TrimEnd(s) ==
    IF s # <<>> /\ s[Len(s)] = " " THEN TrimEnd(SubSeq(s, 1, Len(s) - 1)) ELSE s

\* String.prototype.trim
Trim(s) == TrimEnd(TrimStart(s))

\* a || b on strings: the empty string (and undefined, modelled as it) is falsy
OrElse(a, b) == IF a # <<>> THEN a ELSE b

STR_FlightNeeded == <<"F","l","i","g","h","t"," ","N","e","e","d","e","d">>
STR_ReturnFlightNeeded ==
    <<"R","e","t","u","r","n"," ">> \o STR_FlightNeeded
STR_OpenExploration ==
    <<"O","p","e","n"," ","E","x","p","l","o","r","a","t","i","o","n">>
STR_Activity == <<"A","c","t","i","v","i","t","y">>
STR_Hotel == <<"H","o","t","e","l">>
STR_Flight == <<"F","l","i","g","h","t">>
STR_ReturnFlight == <<"R","e","t","u","r","n"," ">> \o STR_Flight
STR_dummy_flight == <<"d","u","m","m","y","-","f","l","i","g","h","t">>
STR_FL123 == <<"F","L","1","2","3">>
STR_Airline == <<"A","i","r","l","i","n","e">>
STR_tour == <<"t","o","u","r">>
STR_guided == <<"g","u","i","d","e","d">>

----------------------------------------------------------------------------
(* Dates *)

\* null, and a Date whose time is NaN
NullDate == -1

\* A stored date string: absent, unparseable, or "YYYY-MM-DDTHH:mm" naming a
\* calendar day and a time of day.
NoDateStr == [kind |-> "none", day |-> 0, tick |-> 0]
BadDateStr == [kind |-> "bad", day |-> 0, tick |-> 0]
IsoDateStr(d, t) == [kind |-> "iso", day |-> d, tick |-> t]

\* parseDate: null for a missing or unparseable string, else the Date
parseDate(dateStr) ==
    IF dateStr.kind = "iso"
    THEN dateStr.day * TicksPerDay + dateStr.tick
    ELSE NullDate

\* !d || isNaN(d.getTime())
IsInvalidDate(d) == d = NullDate

\* formatDate: the calendar day a Date falls on
formatDate(d) == d \div TicksPerDay

RECURSIVE DateLoop(_, _)
DateLoop(currentDate, endDateObj) ==
    IF currentDate <= endDateObj
    THEN <<currentDate>> \o DateLoop(currentDate + TicksPerDay, endDateObj)
    ELSE <<>>

buildDateRange(start, end) ==
    IF IsInvalidDate(start) THEN <<>>
    ELSE LET endDateObj == IF ~IsInvalidDate(end) THEN end ELSE start
         IN  DateLoop(start, endDateObj)

\* the Date values a caller can hand over
DateValues == {NullDate} \cup (0..((MaxDay + 1) * TicksPerDay - 1))

----------------------------------------------------------------------------
(* Records handed to the assembler *)

\* null / undefined price
NullPrice == -1

\* empty marks the object {}, which has no keys at all
NoFlight == [nil |-> TRUE, empty |-> FALSE, id |-> <<>>, flightNumber |-> <<>>,
             airline |-> <<>>, price |-> 0]
MkFlight(id, num, airline, price) ==
    [nil |-> FALSE, empty |-> FALSE, id |-> id, flightNumber |-> num,
     airline |-> airline, price |-> price]

NoHotel == [nil |-> TRUE, isDummy |-> FALSE, name |-> <<>>, price |-> 0]
MkHotel(name, isDummy, price) ==
    [nil |-> FALSE, isDummy |-> isDummy, name |-> name, price |-> price]

MkActivity(name, category, duration, price) ==
    [name |-> name, category |-> category, duration |-> duration,
     price |-> price]

MkItem(type, title, time, isMustDo, isOpenExploration, price) ==
    [type |-> type, title |-> title, time |-> time, isMustDo |-> isMustDo,
     isOpenExploration |-> isOpenExploration, price |-> price]

\* day is 0 until the days are sorted and numbered ("day: null")
MkDay(dateObj, items) ==
    [day |-> 0, date |-> formatDate(dateObj), dateObj |-> dateObj,
     items |-> items,
     hasOpenExploration |-> \E i \in 1..Len(items) : items[i].isOpenExploration]

Min(a, b) == IF a <= b THEN a ELSE b
Max(a, b) == IF a >= b THEN a ELSE b
\* Math.ceil(a / b) for a >= 0, b > 0
Ceil(a, b) == (a + b - 1) \div b
\* Array.prototype.slice(from, to) with 0-based, end-exclusive indices
Slice(s, from, to) == SubSeq(s, from + 1, Min(to, Len(s)))
\* Array.prototype.filter
Filter(s, Keep(_)) ==
    LET F[i \in 0..Len(s)] ==
            IF i = 0 THEN <<>>
            ELSE IF Keep(s[i]) THEN Append(F[i - 1], s[i]) ELSE F[i - 1]
    IN  F[Len(s)]
\* Array.prototype.some
Some(s, P(_)) == \E i \in 1..Len(s) : P(s[i])

----------------------------------------------------------------------------
(* getTimeSlotForCategory *)

EveningWords == { <<"n","i","g","h","t","l","i","f","e">>,
                  <<"d","i","n","n","e","r">>,
                  <<"e","v","e","n","i","n","g">>,
                  <<"n","i","g","h","t">> }
LunchWords == { <<"l","u","n","c","h">>,
                <<"r","e","s","t","a","u","r","a","n","t">>,
                <<"d","i","n","i","n","g">>,
                <<"f","o","o","d">> }
MorningWords == { <<"b","r","e","a","k","f","a","s","t">>,
                  <<"m","o","r","n","i","n","g">>,
                  <<"m","u","s","e","u","m">>,
                  <<"g","a","l","l","e","r","y">> }
AfternoonWords == { <<"a","f","t","e","r","n","o","o","n">>,
                    STR_tour,
                    <<"w","a","l","k","i","n","g">> }
LongDurationWords == { <<"4">>, <<"5">>, <<"6">>, <<"f","u","l","l">> }

IncludesAny(s, words) == \E w \in words : Includes(s, w)

alternatives(preferred) ==
    CASE preferred = "Morning" -> <<"Afternoon", "Evening">>
      [] preferred = "Afternoon" -> <<"Morning", "Evening">>
      [] preferred = "Evening" -> <<"Afternoon", "Morning">>
      [] preferred = "Lunch" -> <<"Afternoon", "Morning">>
      [] preferred = "Dinner" -> <<"Evening", "Afternoon">>
      [] OTHER -> <<"Morning", "Afternoon", "Evening">>

\* a slot choice that never looks at the slots already taken
getAvailableSlotPreferred(preferred, existingSlots) == preferred

getAvailableSlot(preferred, existingSlots) ==
    IF ~Some(existingSlots, LAMBDA t : t = preferred) THEN preferred
    ELSE LET alt == alternatives(preferred)
             free == Filter(alt, LAMBDA a : ~Some(existingSlots, LAMBDA t : t = a))
         IN  IF free # <<>> THEN Head(free) ELSE preferred

getTimeSlotForCategory(category, duration, index, existingSlots) ==
    LET categoryLower == ToLowerCase(category)
        durationStr == ToLowerCase(duration)
        slots == <<"Morning", "Afternoon", "Evening">>
    IN  IF IncludesAny(categoryLower, EveningWords)
        THEN getAvailableSlot("Evening", existingSlots)
        ELSE IF IncludesAny(categoryLower, LunchWords)
        THEN getAvailableSlot("Lunch", existingSlots)
        ELSE IF IncludesAny(categoryLower, MorningWords)
        THEN getAvailableSlot("Morning", existingSlots)
        ELSE IF IncludesAny(categoryLower, AfternoonWords)
        THEN getAvailableSlot("Afternoon", existingSlots)
        ELSE IF IncludesAny(durationStr, LongDurationWords)
        THEN getAvailableSlot("Morning", existingSlots)
        ELSE getAvailableSlot(slots[(index % Len(slots)) + 1], existingSlots)

----------------------------------------------------------------------------
(* createDayByDayItinerary *)

\* startDateObj: the trip store's startDate first, else the startDate argument
ResolveStart(ts, startDate) ==
    LET fromState == IF ts.startDate.kind # "none"
                     THEN parseDate(ts.startDate) ELSE startDate
    IN  IF IsInvalidDate(fromState) THEN startDate ELSE fromState

\* endDateObj before the one-way default: the trip store's endDate first, else
\* the endDate argument
ResolveEndRaw(ts, endDate) ==
    LET fromState == IF ts.endDate.kind # "none"
                     THEN parseDate(ts.endDate) ELSE endDate
    IN  IF IsInvalidDate(fromState) THEN endDate ELSE fromState

\* endDateObj: a missing end date becomes the start date (one-way trip)
ResolveEnd(ts, startDate, endDate) ==
    LET raw == ResolveEndRaw(ts, endDate)
    IN  IF IsInvalidDate(raw) THEN ResolveStart(ts, startDate) ELSE raw

\* a round-trip test that ignores the dates
isRoundTripAlways(startDateObj, endDateObj) == TRUE

isRoundTripOf(startDateObj, endDateObj) == endDateObj # startDateObj

\* the test day 1 applies to the outbound flight
IsUsableOutbound(flight) ==
    /\ ~flight.nil
    /\ flight.id # STR_dummy_flight
    /\ flight.flightNumber # STR_FL123
    /\ flight.airline # STR_Airline

\* the test the last day applies to the return flight
IsDummyReturn(returnFlight) ==
    \/ returnFlight.id = STR_dummy_flight
    \/ returnFlight.flightNumber = STR_FL123
    \/ returnFlight.airline = STR_Airline

FlightNeededItem ==
    MkItem("activity", STR_FlightNeeded, "Morning", FALSE, FALSE, NullPrice)
ReturnFlightNeededItem ==
    MkItem("activity", STR_ReturnFlightNeeded, "All Day", FALSE, FALSE, NullPrice)
OpenExplorationItem ==
    MkItem("activity", STR_OpenExploration, "All Day", FALSE, TRUE, NullPrice)

OutboundFlightItem(flight) ==
    MkItem("flight",
           OrElse(flight.airline, STR_Flight) \o <<" ">> \o flight.flightNumber,
           "Departure", FALSE, FALSE, flight.price)

ReturnFlightItem(returnFlight) ==
    LET airline == OrElse(returnFlight.airline, STR_ReturnFlight)
    IN  MkItem("flight",
               OrElse(Trim(airline \o <<" ">> \o returnFlight.flightNumber),
                      STR_ReturnFlight),
               "Departure", FALSE, FALSE, returnFlight.price)

HotelItem(hotel, time) ==
    MkItem("hotel", OrElse(hotel.name, STR_Hotel), time, FALSE, FALSE, hotel.price)

HotelItems(hotel, time) ==
    IF ~hotel.nil /\ ~hotel.isDummy THEN <<HotelItem(hotel, time)>> ELSE <<>>

day1Items(flight, hotel) ==
    (IF IsUsableOutbound(flight)
     THEN <<OutboundFlightItem(flight)>>
     ELSE <<FlightNeededItem>>)
    \o HotelItems(hotel, "Check-in")

\* allActivities without those whose name matches a must-do
regularActivities(allActivities, mustDoActivities) ==
    Filter(allActivities, LAMBDA act :
        LET actName == Trim(ToLowerCase(act.name))
        IN  ~Some(mustDoActivities, LAMBDA mustDo :
                LET mustDoName == Trim(ToLowerCase(mustDo.name))
                IN  \/ actName = mustDoName
                    \/ Includes(actName, mustDoName)
                    \/ Includes(mustDoName, actName)))

\* the distribution plan: one slice of at most 2 must-dos per middle day
RECURSIVE mustDoDistribution(_, _, _)
mustDoDistribution(mustDoActivities, daysLeft, mustDoIndex) ==
    IF daysLeft = 0 THEN <<>>
    ELSE LET count == Min(2, Len(mustDoActivities) - mustDoIndex)
         IN  IF count > 0
             THEN <<Slice(mustDoActivities, mustDoIndex, mustDoIndex + count)>>
                  \o mustDoDistribution(mustDoActivities, daysLeft - 1,
                                        mustDoIndex + count)
             ELSE << <<>> >>
                  \o mustDoDistribution(mustDoActivities, daysLeft - 1,
                                        mustDoIndex)

\* the regular activities kept by the stored preferences
filteredRegularActivities(regular, preferences) ==
    Filter(regular, LAMBDA act :
        LET actCategory == ToLowerCase(act.category)
            preferredCategories ==
                [i \in 1..Len(preferences.categories) |->
                    ToLowerCase(preferences.categories[i])]
        IN  IF /\ preferences.guidedTour
               /\ (Includes(actCategory, STR_tour) \/ Includes(actCategory, STR_guided))
            THEN TRUE
            ELSE IF Len(preferredCategories) > 0
            THEN Some(preferredCategories, LAMBDA prefCat :
                     \/ Includes(actCategory, prefCat)
                     \/ Includes(ToLowerCase(act.name), prefCat))
            ELSE TRUE)

Times(items) == [i \in 1..Len(items) |-> items[i].time]

\* dayItems after the forEach over this day's must-dos
AddMustDos(dayItems, mustDoForDay) ==
    LET F[k \in 0..Len(mustDoForDay)] ==
            IF k = 0 THEN dayItems
            ELSE LET mustDo == mustDoForDay[k]
                     timeSlot == getTimeSlotForCategory(
                         mustDo.category, mustDo.duration, k - 1, Times(F[k - 1]))
                 IN  Append(F[k - 1],
                            MkItem("activity", mustDo.name, timeSlot, TRUE, FALSE,
                                   mustDo.price))
    IN  F[Len(mustDoForDay)]

\* dayItems after the forEach over this day's regular activities
AddRegular(dayItems, dayActivities) ==
    LET F[k \in 0..Len(dayActivities)] ==
            IF k = 0 THEN dayItems
            ELSE LET activity == dayActivities[k]
                     timeSlot == getTimeSlotForCategory(
                         activity.category, activity.duration, k - 1,
                         Times(F[k - 1]))
                 IN  Append(F[k - 1],
                            MkItem("activity", OrElse(activity.name, STR_Activity),
                                   timeSlot, FALSE, FALSE,
                                   IF activity.price = NullPrice
                                   THEN 0 ELSE activity.price))
    IN  F[Len(dayActivities)]

\* a slice of two activities whatever the day already holds
dayActivitiesOfTwoMore(dayItems, filtered, dayIndex, actualMiddleDays) ==
    IF Len(filtered) > 0 /\ actualMiddleDays > 0
    THEN LET activitiesPerDay == Ceil(Len(filtered), actualMiddleDays)
             startIdx == dayIndex * activitiesPerDay
         IN  Slice(filtered, startIdx, Min(startIdx + 2, Len(filtered)))
    ELSE <<>>

\* the slice of the filtered pool that middle day dayIndex receives
dayActivitiesOf(dayItems, filtered, dayIndex, actualMiddleDays) ==
    LET remainingSlots == Max(0, 2 - Len(dayItems))
    IN  IF remainingSlots > 0 /\ Len(filtered) > 0 /\ actualMiddleDays > 0
        THEN LET activitiesPerDay == Ceil(Len(filtered), actualMiddleDays)
                 startIdx == dayIndex * activitiesPerDay
                 endIdx == Min(startIdx + remainingSlots, Len(filtered))
             IN  Slice(filtered, startIdx, endIdx)
        ELSE <<>>

\* an Open Exploration card added whatever the day holds
WithOpenExplorationAlways(dayItems) == Append(dayItems, OpenExplorationItem)

\* the Open Exploration card of a day with no activity
WithOpenExploration(dayItems) ==
    LET hasActivities ==
            Some(dayItems, LAMBDA item :
                item.type = "activity" /\ ~item.isOpenExploration)
    IN  IF ~hasActivities THEN Append(dayItems, OpenExplorationItem) ELSE dayItems

\* the items of middle day dayIndex (0-based)
middleDayItems(dayIndex, plan, filtered, actualMiddleDays, hotel) ==
    LET mustDoForDay == IF dayIndex + 1 <= Len(plan) THEN plan[dayIndex + 1] ELSE <<>>
        withMustDo == AddMustDos(<<>>, mustDoForDay)
        withRegular ==
            AddRegular(withMustDo,
                       dayActivitiesOf(withMustDo, filtered, dayIndex,
                                       actualMiddleDays))
    IN  WithOpenExploration(withRegular) \o HotelItems(hotel, "Overnight")

lastDayItems(returnFlight) ==
    IF returnFlight.nil THEN <<ReturnFlightNeededItem>>
    ELSE IF IsDummyReturn(returnFlight) THEN <<ReturnFlightNeededItem>>
    ELSE <<ReturnFlightItem(returnFlight)>>

\* days.sort((a, b) => a.dateObj - b.dateObj): a stable sort
RECURSIVE InsertDay(_, _)
InsertDay(sorted, d) ==
    IF sorted = <<>> THEN <<d>>
    ELSE IF sorted[Len(sorted)].dateObj <= d.dateObj THEN Append(sorted, d)
    ELSE Append(InsertDay(SubSeq(sorted, 1, Len(sorted) - 1), d),
                sorted[Len(sorted)])

SortDays(days) ==
    LET F[k \in 0..Len(days)] ==
            IF k = 0 THEN <<>> ELSE InsertDay(F[k - 1], days[k])
    IN  F[Len(days)]

\* days.forEach((day, index) => day.day = index + 1)
NumberDays(days) == [i \in 1..Len(days) |-> [days[i] EXCEPT !.day = i]]

\* the days pushed, in the order of the pushes, for a valid start date
BuiltDays(ts, flight, hotel, allActivities, startDateObj, endDateObj, returnFlight) ==
    LET dateRange == buildDateRange(startDateObj, endDateObj)
        daysDiff == Len(dateRange)
        isRoundTrip == isRoundTripOf(startDateObj, endDateObj)
        first == IF Len(dateRange) > 0
                 THEN <<MkDay(dateRange[1], day1Items(flight, hotel))>>
                 ELSE <<>>
        middleDays == IF isRoundTrip
                      THEN SubSeq(dateRange, 2, Len(dateRange) - 1)
                      ELSE SubSeq(dateRange, 2, Len(dateRange))
        actualMiddleDays == Len(middleDays)
        regular == regularActivities(allActivities, ts.mustDoActivities)
        plan == mustDoDistribution(ts.mustDoActivities, actualMiddleDays, 0)
        filtered == filteredRegularActivities(regular, ts.preferences)
        middle == IF daysDiff > 1
                  THEN [i \in 1..actualMiddleDays |->
                          MkDay(middleDays[i],
                                middleDayItems(i - 1, plan, filtered,
                                               actualMiddleDays, hotel))]
                  ELSE <<>>
        last == IF isRoundTrip /\ Len(dateRange) > 0
                THEN <<MkDay(dateRange[Len(dateRange)], lastDayItems(returnFlight))>>
                ELSE <<>>
    IN  first \o middle \o last

\* [threw, days]: threw is the "Invalid start date" Error
createDayByDayItinerary(ts, flight, hotel, allActivities, startDate, endDate, returnFlight) ==
    LET startDateObj == ResolveStart(ts, startDate)
        endDateObj == ResolveEnd(ts, startDate, endDate)
    IN  IF IsInvalidDate(startDateObj)
        THEN [threw |-> TRUE, days |-> <<>>]
        ELSE [threw |-> FALSE,
              days |-> NumberDays(SortDays(
                  BuiltDays(ts, flight, hotel, allActivities, startDateObj,
                            endDateObj, returnFlight)))]

----------------------------------------------------------------------------
(* generateItinerary: the update-existing-itinerary step *)

\* findIndex: the 1-based index of the first item satisfying P, 0 for none
FindIndex(items, P(_)) ==
    IF \E i \in 1..Len(items) : P(items[i])
    THEN CHOOSE i \in 1..Len(items) :
            P(items[i]) /\ \A j \in 1..(i - 1) : ~P(items[j])
    ELSE 0

UpdateOutboundItem(newOutboundFlight) ==
    MkItem("flight",
           OrElse(newOutboundFlight.airline, STR_Flight) \o <<" ">>
               \o newOutboundFlight.flightNumber,
           "Departure", FALSE, FALSE, newOutboundFlight.price)

UpdateReturnItem(newReturnFlight) ==
    MkItem("flight",
           OrElse(newReturnFlight.airline, STR_ReturnFlight) \o <<" ">>
               \o newReturnFlight.flightNumber,
           "Departure", FALSE, FALSE, newReturnFlight.price)

\* a merge that never replaces what day 1 already holds
MergeOutboundAlwaysAdd(items, newOutboundFlight) ==
    <<UpdateOutboundItem(newOutboundFlight)>> \o items

\* day 1's items once the new outbound flight is merged in
MergeOutbound(items, newOutboundFlight) ==
    LET flightItemIndex ==
            FindIndex(items, LAMBDA item :
                \/ item.type = "flight"
                \/ (item.type = "activity" /\ item.title = STR_FlightNeeded))
        flightItem == UpdateOutboundItem(newOutboundFlight)
    IN  IF flightItemIndex >= 1
        THEN [items EXCEPT ![flightItemIndex] = flightItem]
        ELSE <<flightItem>> \o items

\* the last day's items once the new return flight is merged in
MergeReturn(items, newReturnFlight) ==
    LET flightItemIndex ==
            FindIndex(items, LAMBDA item :
                \/ item.type = "flight"
                \/ (item.type = "activity"
                    /\ (item.title = STR_ReturnFlightNeeded
                        \/ item.title = STR_FlightNeeded)))
        flightItem == UpdateReturnItem(newReturnFlight)
    IN  IF flightItemIndex >= 1
        THEN [items EXCEPT ![flightItemIndex] = flightItem]
        ELSE Append(items, flightItem)

\* updatedDays
updatedDaysOf(existingDays, newOutboundFlight, newReturnFlight) ==
    LET withOutbound ==
            IF ~newOutboundFlight.nil /\ Len(existingDays) > 0
            THEN [existingDays EXCEPT ![1].items =
                     MergeOutbound(existingDays[1].items, newOutboundFlight)]
            ELSE existingDays
        n == Len(withOutbound)
    IN  IF ~newReturnFlight.nil /\ n > 1
        THEN [withOutbound EXCEPT ![n].items =
                 MergeReturn(withOutbound[n].items, newReturnFlight)]
        ELSE withOutbound

\* updatedItineraryData.total_price
updatedTotalPrice(existing, newOutboundFlight, newReturnFlight) ==
    existing.total_price
    + (IF newOutboundFlight.nil THEN 0 ELSE newOutboundFlight.price)
    + (IF newReturnFlight.nil THEN 0 ELSE newReturnFlight.price)

----------------------------------------------------------------------------
(* Inputs *)

Letters == <<"a", "b", "c", "d", "e">>
STR_museum == <<"m","u","s","e","u","m">>
STR_food == <<"f","o","o","d">>

\* the i-th must-do the user recorded
MustDoAt(i) ==
    MkActivity(<<Letters[i]>>,
               IF i % 2 = 1 THEN STR_museum ELSE <<>>,
               <<"2","h">>, NullPrice)

MustDoLists == { [i \in 1..n |-> MustDoAt(i)] : n \in 0..MaxMustDo }

\* the activities the provider returned, in its order
PoolAt(i) ==
    CASE i = 1 -> MkActivity(<<"x">>, STR_tour, <<"2","h">>, 1)
      [] i = 2 -> MkActivity(<<"A","x">>, STR_museum, <<"4","h">>, 1)
      [] i = 3 -> MkActivity(<<"y">>, <<>>, <<"2","h">>, NullPrice)
      [] OTHER -> MkActivity(<<>>, STR_food, <<"2","h">>, 1)

Pools == { [i \in 1..n |-> PoolAt(i)] : n \in 0..MaxPool }

DefaultPreferences == [guidedTour |-> FALSE, categories |-> <<>>]
PreferenceSet ==
    { DefaultPreferences, [guidedTour |-> FALSE, categories |-> <<STR_museum>>] }

Flight1 == MkFlight(<<"f","1">>, <<"D","L","1">>, <<"D","e","l","t","a">>, 1)
Flight2 == MkFlight(<<"f","2">>, <<"U","A","2">>, <<"U","n","i","t","e","d">>, 1)
Flight3 == MkFlight(<<"f","3">>, <<"A","A","3">>, <<>>, 1)
FlightFL123 == MkFlight(<<"f","4">>, STR_FL123, <<"D","e","l","t","a">>, 1)
FlightDummyId == MkFlight(STR_dummy_flight, <<"X","1">>, <<"D","e","l","t","a">>, 1)

Hotel1 == MkHotel(<<"I","n","n">>, FALSE, 1)
HotelDummy == MkHotel(<<"I","n","n">>, TRUE, 1)

AllDateStrs ==
    {NoDateStr, BadDateStr}
    \cup { IsoDateStr(d, t) : d \in 0..MaxDay, t \in 0..(TicksPerDay - 1) }

MkTripState(startDate, endDate, mustDo, preferences) ==
    [startDate |-> startDate, endDate |-> endDate,
     mustDoActivities |-> mustDo, preferences |-> preferences]

MkArgs(flight, hotel, allActivities, startDate, endDate, returnFlight) ==
    [flight |-> flight, hotel |-> hotel, allActivities |-> allActivities,
     startDate |-> startDate, endDate |-> endDate, returnFlight |-> returnFlight,
     total_price |-> 0]

NoItinerary == [status |-> "none", days |-> <<>>, total_price |-> 0]
IdleRange == [start |-> NullDate, end |-> NullDate, done |-> FALSE, dates |-> <<>>]

\* no optimize request made
IdleOpt == [done |-> FALSE]

\* no cost block evaluated
IdlePrice == [done |-> FALSE]

\* the page not mounted
IdlePage == [mounted |-> FALSE]

\* no direction matching run
IdleMatch == [done |-> FALSE]

\* date windows of every shape, few contents
WindowInputs ==
    /\ \E sd \in {NoDateStr, BadDateStr, IsoDateStr(1, 0)},
          ed \in AllDateStrs,
          md \in { l \in MustDoLists : Len(l) <= 1 } :
          tripState = MkTripState(sd, ed, md, DefaultPreferences)
    /\ \E f \in {NoFlight, Flight1}, rf \in {NoFlight, Flight2},
          as \in {NullDate, TicksPerDay + 1},
          ae \in {NullDate, 3 * TicksPerDay} :
          args = MkArgs(f, NoHotel, <<>>, as, ae, rf)

\* contents of every shape, date windows from the trip store
ContentInputs ==
    /\ \E ed \in {NoDateStr, IsoDateStr(1, 1)} \cup { IsoDateStr(d, 0) : d \in 0..MaxDay },
          md \in MustDoLists, pr \in PreferenceSet :
          tripState = MkTripState(IsoDateStr(1, 0), ed, md, pr)
    /\ \E f \in {NoFlight, Flight1, FlightFL123},
          rf \in {NoFlight, Flight2, FlightDummyId},
          h \in {NoHotel, Hotel1, HotelDummy},
          pool \in Pools :
          args = MkArgs(f, h, pool, NullDate, NullDate, rf)

InitAssembly ==
    /\ WindowInputs \/ ContentInputs
    /\ itineraryData = NoItinerary
    /\ rangeCall = IdleRange
    /\ optCall = IdleOpt
    /\ priceCall = IdlePrice
    /\ page = IdlePage
    /\ matchCall = IdleMatch

----------------------------------------------------------------------------
(* Actions *)

\* the largest total_price the model follows
MaxTotalPrice == 2

\* generateItinerary hands the selected items to createDayByDayItinerary and
\* stores the days; an Error thrown by it ends in the error state
CreateItinerary ==
    /\ itineraryData.status = "none"
    /\ LET r == createDayByDayItinerary(tripState, args.flight, args.hotel,
                    args.allActivities, args.startDate, args.endDate,
                    args.returnFlight)
       IN  itineraryData' =
               IF r.threw
               THEN [status |-> "error", days |-> <<>>, total_price |-> 0]
               ELSE [status |-> "ready", days |-> r.days,
                     total_price |-> args.total_price]
    /\ UNCHANGED <<tripState, args, rangeCall, optCall, priceCall, page,
                 matchCall>>

\* generateItinerary with location.state.updateExistingItinerary set
UpdateExistingItinerary ==
    /\ itineraryData.status = "ready"
    /\ \E newOutboundFlight \in {NoFlight, Flight3},
          newReturnFlight \in {NoFlight, Flight3} :
          /\ updatedTotalPrice(itineraryData, newOutboundFlight, newReturnFlight)
                 <= MaxTotalPrice
          /\ itineraryData' =
                 [itineraryData EXCEPT
                     !.days = updatedDaysOf(itineraryData.days, newOutboundFlight,
                                            newReturnFlight),
                     !.total_price = updatedTotalPrice(itineraryData,
                                         newOutboundFlight, newReturnFlight)]
    /\ UNCHANGED <<tripState, args, rangeCall, optCall, priceCall, page,
                 matchCall>>

NextAssembly == CreateItinerary \/ UpdateExistingItinerary

SpecAssembly == InitAssembly /\ [][NextAssembly]_vars

----------------------------------------------------------------------------
(* Properties of the assembled itinerary *)

StartObj == ResolveStart(tripState, args.startDate)
EndRawObj == ResolveEndRaw(tripState, args.endDate)
EndObj == ResolveEnd(tripState, args.startDate, args.endDate)
IsRoundTrip == isRoundTripOf(StartObj, EndObj)
Ready == itineraryData.status = "ready"
Days == itineraryData.days
MustDos == tripState.mustDoActivities

\* the indices of the interior days: strictly between the first and the last
InteriorDays == IF IsRoundTrip THEN 2..(Len(Days) - 1) ELSE {}

CountItems(items, P(_)) == Cardinality({ i \in 1..Len(items) : P(items[i]) })

\* the places <<day, item>> where must-do m appears
Placements(m) ==
    { <<d, i>> \in (1..Len(Days)) \X (1..(2 * MaxMustDo + 4)) :
        /\ i <= Len(Days[d].items)
        /\ Days[d].items[i].isMustDo
        /\ Days[d].items[i].title = m.name }

\* no update step has merged a flight: every merged flight adds its price
NoFlightMerged == itineraryData.total_price = args.total_price

FlightCount(d) == CountItems(Days[d].items, LAMBDA item : item.type = "flight")

HasTitle(d, title) ==
    \E i \in 1..Len(Days[d].items) :
        /\ Days[d].items[i].type = "activity"
        /\ Days[d].items[i].title = title

\* C1: for a non-empty must-do list and at least one interior day, every
\* must-do activity appears as an item of exactly one itinerary day, never
\* duplicated and never dropped, whatever the number of must-dos and of
\* interior days.
C1_EveryMustDoPlacedOnce ==
    (Ready /\ Len(MustDos) >= 1 /\ InteriorDays # {})
        => \A k \in 1..Len(MustDos) : Cardinality(Placements(MustDos[k])) = 1

\* C2: for a round trip, after createDayByDayItinerary and after any number of
\* update-existing-itinerary steps, day 1 holds at most one flight item, the
\* last day holds at most one flight item, and no other day holds a flight item.
C2_FlightsOnlyOnFirstAndLastDay ==
    (Ready /\ IsRoundTrip)
        => \A d \in 1..Len(Days) :
              IF d = 1 \/ d = Len(Days) THEN FlightCount(d) <= 1
              ELSE FlightCount(d) = 0

\* a three-day round trip whose outbound and return flights were both merged
\* in by update steps
C2_Witness ==
    /\ Ready /\ IsRoundTrip /\ Len(Days) >= 3
    /\ itineraryData.total_price = 2
    /\ \E i \in 1..Len(Days[1].items) :
          Days[1].items[i] = UpdateOutboundItem(Flight3)
    /\ \E i \in 1..Len(Days[Len(Days)].items) :
          Days[Len(Days)].items[i] = UpdateReturnItem(Flight3)

\* C3: with a parseable start date and no end date (absent, null, unparseable
\* or equal to the start), the itinerary has exactly one day, dated the start
\* date, whatever the flight, hotel, activity and must-do inputs.
C3_OneWayHasOneDay ==
    (Ready /\ (IsInvalidDate(EndRawObj) \/ EndRawObj = StartObj))
        => /\ Len(Days) = 1
           /\ Days[1].dateObj = StartObj
           /\ Days[1].date = formatDate(StartObj)

\* a one-way trip whose end date is given and equals the start, with must-dos,
\* a pool of activities and both flights supplied
C3_Witness ==
    /\ Ready /\ EndRawObj = StartObj /\ Len(Days) = 1
    /\ Len(MustDos) >= 2 /\ Len(args.allActivities) >= 1
    /\ ~args.flight.nil /\ ~args.returnFlight.nil

\* C5: the day numbers are exactly 1..N, and the day numbered i has a strictly
\* earlier date than the day numbered i + 1.
C5_DayNumbersDenseAndAscending ==
    Ready
        => /\ \A i \in 1..Len(Days) : Days[i].day = i
           /\ \A i \in 1..(Len(Days) - 1) : Days[i].dateObj < Days[i + 1].dateObj

\* C6: when no valid outbound flight is supplied, day 1 contains a 'Flight
\* Needed' placeholder; for a round trip with no valid return flight the last
\* day contains a 'Return Flight Needed' placeholder; and when no flights are
\* provided at all no item of type flight appears anywhere.
C6_PlaceholdersForMissingFlights ==
    (Ready /\ NoFlightMerged)
        => /\ ~IsUsableOutbound(args.flight)
                => (Len(Days) >= 1 /\ HasTitle(1, STR_FlightNeeded))
           /\ (IsRoundTrip /\ (args.returnFlight.nil \/ IsDummyReturn(args.returnFlight)))
                => (Len(Days) >= 1 /\ HasTitle(Len(Days), STR_ReturnFlightNeeded))
           /\ (args.flight.nil /\ args.returnFlight.nil)
                => \A d \in 1..Len(Days) : FlightCount(d) = 0

\* C7: for a round trip with at least one interior day, every interior day
\* holds at least one activity item: a day on which no must-do or regular
\* activity was placed holds exactly one 'Open Exploration' item, and a day on
\* which an activity was placed holds none.
C7_OpenExplorationFillsEmptyDays ==
    Ready
        => \A d \in InteriorDays :
              LET items == Days[d].items
                  placed == CountItems(items, LAMBDA item :
                                item.type = "activity" /\ ~item.isOpenExploration)
                  open == CountItems(items, LAMBDA item :
                                item.isOpenExploration
                                /\ item.title = STR_OpenExploration)
              IN  /\ CountItems(items, LAMBDA item : item.type = "activity") >= 1
                  /\ placed = 0 => open = 1
                  /\ placed > 0 => open = 0

\* a round trip with one interior day left to Open Exploration and another
\* holding a placed activity
C7_Witness ==
    /\ Ready
    /\ \E d \in InteriorDays : Days[d].hasOpenExploration
    /\ \E d \in InteriorDays :
          /\ ~Days[d].hasOpenExploration
          /\ \E i \in 1..Len(Days[d].items) : Days[d].items[i].type = "activity"

\* the must-do, regular and placed activity items of day d
MustDoCountOn(d) == CountItems(Days[d].items, LAMBDA item : item.isMustDo)
IsRegularItem(item) ==
    item.type = "activity" /\ ~item.isMustDo /\ ~item.isOpenExploration
RegularCountOn(d) == CountItems(Days[d].items, IsRegularItem)
PlacedOn(d) ==
    Filter(Days[d].items, LAMBDA item :
        item.type = "activity" /\ ~item.isOpenExploration)

RegularPool == regularActivities(args.allActivities, MustDos)
FilteredPool == filteredRegularActivities(RegularPool, tripState.preferences)

\* C13: with M must-dos and D >= 1 interior days, each interior day receives
\* at most min(2, ceil(M / D)) must-do activities.
C13_MustDosSpreadEvenly ==
    (Ready /\ InteriorDays # {})
        => \A d \in InteriorDays :
              MustDoCountOn(d)
                  <= Min(2, Ceil(Len(MustDos), Cardinality(InteriorDays)))

\* C14: when the preference filter leaves no regular activity while the
\* unfiltered regular pool is not empty, the unfiltered pool is distributed
\* instead: the first interior day, when its must-dos leave a slot free,
\* receives a regular activity.
C14_FilterFallsBackToUnfiltered ==
    (Ready /\ InteriorDays # {} /\ RegularPool # <<>> /\ FilteredPool = <<>>)
        => (MustDoCountOn(2) < 2 => RegularCountOn(2) >= 1)

\* C19: every interior day holds at most 2 activity items in all (must-do
\* plus regular, the Open Exploration filler not counted); must-do items
\* precede regular items, and regular activities take only the slots that the
\* day's must-dos leave free.
C19_TwoActivitiesPerDayMustDoFirst ==
    Ready
        => \A d \in InteriorDays :
              LET placed == PlacedOn(d)
              IN  /\ Len(placed) <= 2
                  /\ RegularCountOn(d) <= 2 - MustDoCountOn(d)
                  /\ \A i, j \in 1..Len(Days[d].items) :
                        (IsRegularItem(Days[d].items[i]) /\ Days[d].items[j].isMustDo)
                            => j < i

\* an interior day holding one must-do followed by one regular activity while
\* the filtered pool had two to offer
C19_Witness ==
    /\ Ready /\ Len(FilteredPool) >= 2
    /\ \E d \in InteriorDays :
          /\ Len(PlacedOn(d)) = 2
          /\ PlacedOn(d)[1].isMustDo
          /\ IsRegularItem(PlacedOn(d)[2])

SlotLabels == {"Morning", "Afternoon", "Evening", "Lunch", "Dinner"}

\* C20: within one interior day no two activity items carry the same
\* time-slot label, every assigned label is one of Morning, Afternoon,
\* Evening, Lunch, Dinner, and an activity whose preferred slot is taken gets
\* the first free slot of that label's alternates (a default-category activity
\* at index 0 prefers Morning, whose first alternate is Afternoon).
C20_SlotsDistinctWithinDay ==
    Ready
        => \A d \in InteriorDays :
              LET placed == PlacedOn(d)
              IN  /\ \A i, j \in 1..Len(placed) :
                        i # j => placed[i].time # placed[j].time
                  /\ \A i \in 1..Len(placed) : placed[i].time \in SlotLabels
                  /\ (/\ Len(placed) = 2
                      /\ placed[1].time = "Morning"
                      /\ placed[1].isMustDo
                      /\ placed[2] \in { MkItem("activity", <<"y">>, t, FALSE, FALSE, 0)
                                           : t \in SlotLabels })
                        => placed[2].time = "Afternoon"

\* a day whose regular activity prefers Morning, finds it taken by the day's
\* must-do and moves to Afternoon
C20_Witness ==
    /\ Ready
    /\ \E d \in InteriorDays :
          /\ Len(PlacedOn(d)) = 2
          /\ PlacedOn(d)[1].isMustDo
          /\ PlacedOn(d)[1].time = "Morning"
          /\ PlacedOn(d)[2] = MkItem("activity", <<"y">>, "Afternoon", FALSE, FALSE, 0)

----------------------------------------------------------------------------
(* buildDateRange on its own *)

IdleTripState == MkTripState(NoDateStr, NoDateStr, <<>>, DefaultPreferences)
IdleArgs == MkArgs(NoFlight, NoHotel, <<>>, NullDate, NullDate, NoFlight)

\* a caller holding a valid start Date and any end Date (or none)
InitRange ==
    /\ \E start \in DateValues \ {NullDate}, end \in DateValues :
          rangeCall = [start |-> start, end |-> end, done |-> FALSE, dates |-> <<>>]
    /\ tripState = IdleTripState
    /\ args = IdleArgs
    /\ itineraryData = NoItinerary
    /\ optCall = IdleOpt
    /\ priceCall = IdlePrice
    /\ page = IdlePage
    /\ matchCall = IdleMatch

BuildDateRange ==
    /\ ~rangeCall.done
    /\ rangeCall' = [rangeCall EXCEPT
                        !.done = TRUE,
                        !.dates = buildDateRange(rangeCall.start, rangeCall.end)]
    /\ UNCHANGED <<tripState, args, itineraryData, optCall, priceCall, page,
                 matchCall>>

NextRange == BuildDateRange

SpecRange == InitRange /\ [][NextRange]_vars

\* C4: buildDateRange(start, end) returns, for any end >= start, exactly
\* (end - start in days) + 1 dates, strictly ascending in steps of one day, the
\* first equal to start and the last on the day of end; it returns [start]
\* when end is absent, invalid or equal to start.
C4_DateRangeCoversEveryDay ==
    rangeCall.done
        => LET start == rangeCall.start
               end == rangeCall.end
               dates == rangeCall.dates
           IN  /\ (~IsInvalidDate(end) /\ end >= start)
                    => /\ Len(dates) = (formatDate(end) - formatDate(start)) + 1
                       /\ \A i \in 1..(Len(dates) - 1) :
                             dates[i + 1] = dates[i] + TicksPerDay
                       /\ dates[1] = start
                       /\ formatDate(dates[Len(dates)]) = formatDate(end)
               /\ (IsInvalidDate(end) \/ end = start) => dates = <<start>>

----------------------------------------------------------------------------
(* The optimize operation: /api/generateOptimalItinerary *)

MaxPrice == 3
MaxUserBudget == 5
MaxWeight == 1
MaxRating == 5

\* an empty slot of a combination
NullCandidate == [nil |-> TRUE, price |-> 0, rating |-> 0, measure |-> 0]
NoResult ==
    [ok |-> FALSE, flight |-> NullCandidate, hotel |-> NullCandidate,
     activity |-> NullCandidate, total_price |-> 0,
     total_score |-> [num |-> 0, den |-> 1]]

MkCandidate(price, rating, measure) ==
    [nil |-> FALSE, price |-> price, rating |-> rating, measure |-> measure]

RECURSIVE GCD(_, _)
GCD(a, b) == IF b = 0 THEN a ELSE GCD(b, a % b)

\* scores are fractions num / den in lowest terms, with num >= 0 and den > 0
Rat(num, den) == [num |-> num \div GCD(num, den), den |-> den \div GCD(num, den)]
RatAdd(a, b) == Rat(a.num * b.den + b.num * a.den, a.den * b.den)
RatScale(k, a) == Rat(k * a.num, a.den)
RatLess(a, b) == a.num * b.den < b.num * a.den
RatEq(a, b) == a.num * b.den = b.num * a.den

SeqMax(s, f(_)) ==
    LET M[i \in 0..Len(s)] ==
            IF i = 0 THEN 0 ELSE Max(M[i - 1], f(s[i]))
    IN  M[Len(s)]

maxPriceOf(pool) == SeqMax(pool, LAMBDA c : c.price)
maxMeasureOf(pool) == SeqMax(pool, LAMBDA c : c.measure)

\* 1 - price / maxPrice
budgetScore(c, pool) == Rat(maxPriceOf(pool) - c.price, maxPriceOf(pool))
\* rating / 5
qualityScore(c) == Rat(c.rating, MaxRating)
\* 1 - duration / maxDuration (flights, activities), 1 - distance / maxDistance (hotels)
convenienceScore(c, pool) == Rat(maxMeasureOf(pool) - c.measure, maxMeasureOf(pool))

\* the weights, re-normalized: equal thirds when the triple sums to 0
normalizedWeights(preferences) ==
    IF preferences.budget + preferences.quality + preferences.convenience = 0
    THEN [budget |-> 1, quality |-> 1, convenience |-> 1]
    ELSE preferences

WeightSum(w) == w.budget + w.quality + w.convenience

\* the composite score of one candidate within its pool
categoryScore(c, pool, preferences) ==
    LET w == normalizedWeights(preferences)
        weighted == RatAdd(RatAdd(RatScale(w.budget, budgetScore(c, pool)),
                                  RatScale(w.quality, qualityScore(c))),
                           RatScale(w.convenience, convenienceScore(c, pool)))
    IN  Rat(weighted.num, weighted.den * WeightSum(w))

\* an empty pool leaves its slot null
SlotsOf(pool) == IF pool = <<>> THEN <<NullCandidate>> ELSE pool

\* the Cartesian product, flights outermost
combinations(flights, hotels, activities) ==
    LET F == SlotsOf(flights)
        H == SlotsOf(hotels)
        A == SlotsOf(activities)
    IN  [k \in 1..(Len(F) * Len(H) * Len(A)) |->
            [flight |-> F[((k - 1) \div (Len(H) * Len(A))) + 1],
             hotel |-> H[(((k - 1) \div Len(A)) % Len(H)) + 1],
             activity |-> A[((k - 1) % Len(A)) + 1]]]

PriceOrZero(c) == IF c.nil THEN 0 ELSE c.price

\* the price of a combination, null slots left out
summedPrice(combo) ==
    PriceOrZero(combo.flight) + PriceOrZero(combo.hotel) + PriceOrZero(combo.activity)

ScoreOrZero(c, pool, preferences) ==
    IF c.nil THEN Rat(0, 1) ELSE categoryScore(c, pool, preferences)

FilledSlots(combo) ==
    (IF combo.flight.nil THEN 0 ELSE 1) + (IF combo.hotel.nil THEN 0 ELSE 1)
        + (IF combo.activity.nil THEN 0 ELSE 1)

\* the mean of the composite scores of the slots that are filled
meanScore(combo, call) ==
    LET sum == RatAdd(RatAdd(ScoreOrZero(combo.flight, call.flights, call.preferences),
                             ScoreOrZero(combo.hotel, call.hotels, call.preferences)),
                      ScoreOrZero(combo.activity, call.activities, call.preferences))
    IN  Rat(sum.num, sum.den * Max(1, FilledSlots(combo)))

\* a filter that lets every combination through
withinBudgetAlways(combo, userBudget) == TRUE

withinBudget(combo, userBudget) == summedPrice(combo) <= userBudget

\* a comparison that keeps the first of two equal scores
betterThanByScoreOnly(score, price, best) ==
    \/ ~best.ok
    \/ RatLess(best.total_score, score)

\* does a combination with this score and price replace the best so far
betterThan(score, price, best) ==
    \/ ~best.ok
    \/ RatLess(best.total_score, score)
    \/ (RatEq(best.total_score, score) /\ price < best.total_price)

\* one pass over the combinations, keeping the best within the budget
generateOptimalItinerary(call) ==
    LET combos == combinations(call.flights, call.hotels, call.activities)
        best[i \in 0..Len(combos)] ==
            IF i = 0 THEN NoResult
            ELSE LET combo == combos[i]
                     score == meanScore(combo, call)
                 IN  IF ~withinBudget(combo, call.userBudget) THEN best[i - 1]
                     ELSE IF betterThan(score, summedPrice(combo), best[i - 1])
                     THEN [ok |-> TRUE, flight |-> combo.flight,
                           hotel |-> combo.hotel, activity |-> combo.activity,
                           total_price |-> summedPrice(combo),
                           total_score |-> score]
                     ELSE best[i - 1]
    IN  best[Len(combos)]

SeqsUpTo(S, n) == UNION { [1..k -> S] : k \in 0..n }

FlightCandidates ==
    { MkCandidate(p, r, 1 + (p % 2)) : p \in 1..MaxPrice, r \in {4, MaxRating} }
HotelCandidates == { MkCandidate(1, 4, 2), MkCandidate(MaxPrice, MaxRating, 1) }
ActivityCandidates == { MkCandidate(1, 3, 1) }

InitSelect ==
    /\ \E flights \in SeqsUpTo(FlightCandidates, 2) \ {<<>>},
          hotels \in SeqsUpTo(HotelCandidates, 2),
          activities \in SeqsUpTo(ActivityCandidates, 1),
          b \in 0..MaxWeight, q \in 0..MaxWeight, c \in 0..MaxWeight,
          userBudget \in 0..MaxUserBudget :
          optCall = [flights |-> flights, hotels |-> hotels,
                     activities |-> activities,
                     preferences |-> [budget |-> b, quality |-> q, convenience |-> c],
                     userBudget |-> userBudget, done |-> FALSE, result |-> NoResult]
    /\ tripState = IdleTripState
    /\ args = IdleArgs
    /\ itineraryData = NoItinerary
    /\ rangeCall = IdleRange
    /\ priceCall = IdlePrice
    /\ page = IdlePage
    /\ matchCall = IdleMatch

Optimize ==
    /\ ~optCall.done
    /\ optCall' = [optCall EXCEPT !.done = TRUE,
                                 !.result = generateOptimalItinerary(optCall)]
    /\ UNCHANGED <<tripState, args, itineraryData, rangeCall, priceCall, page,
                 matchCall>>

NextSelect == Optimize

SpecSelect == InitSelect /\ [][NextSelect]_vars

AllCombinations ==
    LET combos == combinations(optCall.flights, optCall.hotels, optCall.activities)
    IN  { combos[k] : k \in 1..Len(combos) }

Affordable == { combo \in AllCombinations : summedPrice(combo) <= optCall.userBudget }

Returned == optCall.result

\* C8: the optimize operation never returns a combination whose summed price
\* exceeds userBudget, even if that combination scores highest; a combination
\* whose summed price equals userBudget exactly is eligible: it is returned
\* unless another affordable combination is at least as good.
C8_NeverOverBudget ==
    optCall.done
        => /\ Returned.ok
                => /\ Returned.total_price <= optCall.userBudget
                   /\ Returned.total_price =
                          PriceOrZero(Returned.flight) + PriceOrZero(Returned.hotel)
                              + PriceOrZero(Returned.activity)
           /\ \A combo \in AllCombinations :
                 summedPrice(combo) = optCall.userBudget
                    => /\ Returned.ok
                       /\ ~RatLess(Returned.total_score, meanScore(combo, optCall))

\* the returned combination costs exactly userBudget while a combination over
\* the budget scores strictly higher
C8_Witness ==
    /\ optCall.done /\ Returned.ok
    /\ Returned.total_price = optCall.userBudget
    /\ \E combo \in AllCombinations :
          /\ summedPrice(combo) > optCall.userBudget
          /\ RatLess(Returned.total_score, meanScore(combo, optCall))

\* C9: for every weight triple with positive sum, the returned combination has
\* a mean composite score greater than or equal to that of every other
\* within-budget combination, and among combinations of equal mean score the
\* one with the lowest summed price is returned.
C9_BestMeanThenLowestPrice ==
    (optCall.done /\ WeightSum(optCall.preferences) > 0)
        => /\ Affordable # {} => Returned.ok
           /\ Returned.ok =>
                 /\ [flight |-> Returned.flight, hotel |-> Returned.hotel,
                     activity |-> Returned.activity] \in Affordable
                 /\ \A combo \in Affordable :
                       /\ ~RatLess(Returned.total_score, meanScore(combo, optCall))
                       /\ RatEq(Returned.total_score, meanScore(combo, optCall))
                             => Returned.total_price <= summedPrice(combo)

\* the returned combination ties on mean score with a dearer affordable one
\* enumerated before it, and beats a third
C9_Witness ==
    /\ optCall.done /\ Returned.ok /\ WeightSum(optCall.preferences) > 0
    /\ \E combo \in Affordable :
          /\ RatEq(Returned.total_score, meanScore(combo, optCall))
          /\ Returned.total_price < summedPrice(combo)
          /\ combo.flight = optCall.flights[1]
          /\ Returned.flight # optCall.flights[1]
    /\ \E combo \in Affordable :
          RatLess(meanScore(combo, optCall), Returned.total_score)

----------------------------------------------------------------------------
(* Cost aggregation: extractPrice and the totals built from it *)

\* JavaScript values a price can hold; t is the kind of value
JSNumber(n) == [t |-> "number", n |-> n, s |-> <<>>]
JSNaN == [t |-> "NaN", n |-> 0, s |-> <<>>]
JSNull == [t |-> "null", n |-> 0, s |-> <<>>]
JSUndefined == [t |-> "undefined", n |-> 0, s |-> <<>>]
JSString(s) == [t |-> "string", n |-> 0, s |-> s]
JSObject == [t |-> "object", n |-> 0, s |-> <<>>]
\* the TypeError raised by reading a property of null
JSThrow == [t |-> "throw", n |-> 0, s |-> <<>>]

\* null item, item with a plain price, item whose price is a nested object
NoPriced ==
    [nil |-> TRUE, price |-> JSUndefined, amount |-> JSUndefined,
     total |-> JSUndefined, value |-> JSUndefined]
Priced(price) ==
    [nil |-> FALSE, price |-> price, amount |-> JSUndefined,
     total |-> JSUndefined, value |-> JSUndefined]
PricedObject(amount, total, value) ==
    [nil |-> FALSE, price |-> JSObject, amount |-> amount,
     total |-> total, value |-> value]

\* JavaScript truthiness
Truthy(v) ==
    CASE v.t = "number" -> v.n # 0
      [] v.t = "string" -> v.s # <<>>
      [] v.t = "object" -> TRUE
      [] OTHER -> FALSE

\* a || b
JSOr(a, b) == IF Truthy(a) THEN a ELSE b

Digits == <<"0", "1", "2", "3", "4", "5", "6", "7", "8", "9">>
IsDigit(c) == \E d \in 1..10 : Digits[d] = c
DigitValue(c) == (CHOOSE d \in 1..10 : Digits[d] = c) - 1

\* the value of the leading run of digits of s, given the value read so far
RECURSIVE DigitsPrefix(_, _)
DigitsPrefix(s, acc) ==
    IF s = <<>> \/ ~IsDigit(Head(s)) THEN acc
    ELSE DigitsPrefix(Tail(s), 10 * acc + DigitValue(Head(s)))

\* parseFloat on a string without a fraction or exponent: leading blanks, an
\* optional sign, then digits; NaN when no digit follows
parseFloatString(str) ==
    LET t == TrimStart(str)
        signed == t # <<>> /\ Head(t) \in {"-", "+"}
        body == IF signed THEN Tail(t) ELSE t
    IN  IF body = <<>> \/ ~IsDigit(Head(body)) THEN JSNaN
        ELSE IF signed /\ Head(t) = "-"
        THEN JSNumber(0 - DigitsPrefix(body, 0))
        ELSE JSNumber(DigitsPrefix(body, 0))

\* parseFloat(v): v is first converted to a string
parseFloat(v) == IF v.t = "string" THEN parseFloatString(v.s) ELSE JSNaN

RECURSIVE NatToString(_)
NatToString(n) ==
    IF n < 10 THEN <<Digits[n + 1]>>
    ELSE NatToString(n \div 10) \o <<Digits[(n % 10) + 1]>>

\* String(v) for the values a cost can hold
JSToString(v) ==
    CASE v.t = "string" -> v.s
      [] v.t = "number" ->
            IF v.n < 0 THEN <<"-">> \o NatToString(0 - v.n) ELSE NatToString(v.n)
      [] OTHER -> <<"N", "a", "N">>

\* a + b; nothing is computed once an exception is on its way
JSAdd(a, b) ==
    CASE a.t = "throw" \/ b.t = "throw" -> JSThrow
      [] a.t = "string" \/ b.t = "string" -> JSString(JSToString(a) \o JSToString(b))
      [] a.t = "NaN" \/ b.t = "NaN" -> JSNaN
      [] OTHER -> JSNumber(a.n + b.n)

extractPrice(item) ==
    IF item.nil THEN JSNumber(0)
    ELSE IF item.price.t \in {"number", "NaN"} THEN item.price
    ELSE IF item.price.t = "null" THEN JSThrow
    ELSE IF item.price.t = "object"
    THEN JSOr(item.amount, JSOr(item.total, JSOr(item.value, JSNumber(0))))
    ELSE LET parsed == parseFloat(item.price)
         IN  IF parsed.t = "NaN" THEN JSNumber(0) ELSE parsed

\* if (x?.price) cost += extractPrice(x)
AddIfPriced(cost, x) ==
    IF ~x.nil /\ Truthy(x.price) THEN JSAdd(cost, extractPrice(x)) ELSE cost

activitiesCostOf(activity, mustDoActivities) ==
    LET C[i \in 0..Len(mustDoActivities)] ==
            IF i = 0 THEN AddIfPriced(JSNumber(0), activity)
            ELSE AddIfPriced(C[i - 1], mustDoActivities[i])
    IN  C[Len(mustDoActivities)]

PlainPrices ==
    { JSNumber(0), JSNumber(2), JSNumber(0 - 1), JSNaN, JSNull, JSUndefined,
      JSString(<<"1", "2">>), JSString(<<"a">>), JSString(<<" ", "-", "3", "a">>) }
NestedPrices ==
    { PricedObject(JSNumber(2), JSUndefined, JSUndefined),
      PricedObject(JSUndefined, JSNumber(0), JSNumber(1)),
      PricedObject(JSNull, JSUndefined, JSUndefined),
      PricedObject(JSString(<<"a">>), JSUndefined, JSNumber(1)) }
PricedItems == {NoPriced} \cup { Priced(v) : v \in PlainPrices } \cup NestedPrices
MustDoPriced ==
    { Priced(JSUndefined), Priced(JSNumber(1)),
      PricedObject(JSNumber(2), JSUndefined, JSUndefined) }

InitCost ==
    /\ \E outboundFlight \in PricedItems,
          returnFlight \in {NoPriced, Priced(JSNumber(2)), Priced(JSNull)},
          finalHotel \in {NoPriced, Priced(JSNumber(2)), Priced(JSString(<<"1", "2">>))},
          activity \in {NoPriced, Priced(JSNumber(1)), Priced(JSNull)},
          mustDoActivities \in SeqsUpTo(MustDoPriced, MaxMustDo - 1) :
          priceCall =
              [outboundFlight |-> outboundFlight, returnFlight |-> returnFlight,
               finalHotel |-> finalHotel, activity |-> activity,
               mustDoActivities |-> mustDoActivities, done |-> FALSE,
               outboundFlightCost |-> JSUndefined, returnFlightCost |-> JSUndefined,
               flightsCost |-> JSUndefined, hotelsCost |-> JSUndefined,
               activitiesCost |-> JSUndefined, totalCost |-> JSUndefined]
    /\ tripState = IdleTripState
    /\ args = IdleArgs
    /\ itineraryData = NoItinerary
    /\ rangeCall = IdleRange
    /\ optCall = IdleOpt
    /\ page = IdlePage
    /\ matchCall = IdleMatch

\* a statement reached only if nothing before it raised
Then(before, v) == IF before.t = "throw" THEN JSThrow ELSE v

\* the cost block of OptimizedItinerary, run on each render
ComputeCosts ==
    /\ ~priceCall.done
    /\ LET outboundFlightCost == extractPrice(priceCall.outboundFlight)
           returnFlightCost ==
               Then(outboundFlightCost, extractPrice(priceCall.returnFlight))
           flightsCost == JSAdd(outboundFlightCost, returnFlightCost)
           hotelsCost == Then(flightsCost, extractPrice(priceCall.finalHotel))
           activitiesCost ==
               Then(hotelsCost, activitiesCostOf(priceCall.activity,
                                                 priceCall.mustDoActivities))
           totalCost == JSAdd(JSAdd(flightsCost, hotelsCost), activitiesCost)
       IN  priceCall' = [priceCall EXCEPT
                            !.done = TRUE,
                            !.outboundFlightCost = outboundFlightCost,
                            !.returnFlightCost = returnFlightCost,
                            !.flightsCost = flightsCost,
                            !.hotelsCost = hotelsCost,
                            !.activitiesCost = activitiesCost,
                            !.totalCost = totalCost]
    /\ UNCHANGED <<tripState, args, itineraryData, rangeCall, optCall, page,
                 matchCall>>

NextCost == ComputeCosts

SpecCost == InitCost /\ [][NextCost]_vars

IsFiniteNonNegative(v) == v.t = "number" /\ v.n >= 0

\* C10: extractPrice returns a finite number >= 0 for every item and every
\* price shape: a nested {amount: n} resolves to n, an unparseable or missing
\* price resolves to 0, and the function never raises and never yields NaN,
\* null or a non-number, so flightsCost, hotelsCost, activitiesCost and
\* totalCost are always finite numbers >= 0.
C10_CostsAreFiniteNonNegative ==
    priceCall.done
        => /\ IsFiniteNonNegative(priceCall.outboundFlightCost)
           /\ IsFiniteNonNegative(priceCall.returnFlightCost)
           /\ IsFiniteNonNegative(priceCall.flightsCost)
           /\ IsFiniteNonNegative(priceCall.hotelsCost)
           /\ IsFiniteNonNegative(priceCall.activitiesCost)
           /\ IsFiniteNonNegative(priceCall.totalCost)
           /\ (priceCall.outboundFlight.price.t = "object"
               /\ priceCall.outboundFlight.amount.t = "number")
                 => priceCall.outboundFlightCost = priceCall.outboundFlight.amount
           /\ (priceCall.outboundFlight.nil
               \/ priceCall.outboundFlight.price.t \in {"null", "undefined"}
               \/ priceCall.outboundFlight.price = JSString(<<"a">>))
                 => priceCall.outboundFlightCost = JSNumber(0)


----------------------------------------------------------------------------
(* generateItinerary: loading, error and overlapping invocations *)

\* invocations of generateItinerary the model follows
MaxRuns == 2

\* error === null
NullError == ""

\* new Date().toLocaleDateString('en-US', ...), which parseDate accepts
TodayDateStr == IsoDateStr(0, 0)

\* isDummyFlight
isDummyFlight(flight) ==
    \/ flight.nil
    \/ flight.id = STR_dummy_flight
    \/ flight.flightNumber = STR_FL123 /\ flight.airline = STR_Airline
    \/ flight.empty

\* location.state of a navigation to the page: routeInfo.date, whether
\* routeInfo names a destination other than 'Unknown', the update flag with
\* the stored itinerary, and the optimal outbound flight
MkLocationState(routeDate, hasValidDestination, updateExistingItinerary, existingItineraryData, optimalOutboundFlight) ==
    [routeDate |-> routeDate, hasValidDestination |-> hasValidDestination,
     updateExistingItinerary |-> updateExistingItinerary,
     existingItineraryData |-> existingItineraryData,
     optimalOutboundFlight |-> optimalOutboundFlight]

\* an itinerary saved earlier: one day whose flight is still a placeholder
StoredItinerary ==
    [status |-> "ready",
     days |-> createDayByDayItinerary(
                  MkTripState(IsoDateStr(1, 0), NoDateStr, <<>>, DefaultPreferences),
                  NoFlight, NoHotel, <<>>, NullDate, NullDate, NoFlight).days,
     total_price |-> 0]

LocationStates ==
    { MkLocationState(NoDateStr, TRUE, FALSE, NoItinerary, Flight1),
      MkLocationState(NoDateStr, TRUE, FALSE, NoItinerary, NoFlight),
      MkLocationState(BadDateStr, TRUE, FALSE, NoItinerary, Flight1),
      MkLocationState(NoDateStr, FALSE, FALSE, NoItinerary, NoFlight),
      MkLocationState(NoDateStr, TRUE, TRUE, StoredItinerary, Flight3) }

\* the trip store documents a generateItinerary call can find
GenerateTripStates ==
    { MkTripState(sd, ed, <<>>, DefaultPreferences) :
          sd \in {NoDateStr, BadDateStr, IsoDateStr(1, 0)},
          ed \in {NoDateStr, IsoDateStr(2, 0)} }

\* currentRouteInfo.date
currentRouteInfoDate(ts, ls) ==
    IF ls.routeDate.kind # "none" THEN ls.routeDate
    ELSE IF ts.startDate.kind # "none" THEN ts.startDate
    ELSE TodayDateStr

\* startDateStr
startDateStrOf(ts, ls) ==
    IF ts.startDate.kind # "none" THEN ts.startDate
    ELSE currentRouteInfoDate(ts, ls)

\* departureDate
departureDateOf(ts, ls) == parseDate(startDateStrOf(ts, ls))

\* returnDate: endDateStr ? parseDate(endDateStr) : null
returnDateOf(ts) ==
    IF ts.endDate.kind # "none" THEN parseDate(ts.endDate) ELSE NullDate

\* tripEndDate: the return date, else the departure date
tripEndDateOf(ts, ls) ==
    IF returnDateOf(ts) # NullDate THEN returnDateOf(ts)
    ELSE departureDateOf(ts, ls)

\* one invocation: where it stands, the location.state its closure holds, the
\* locals it keeps across its awaits, the Error it threw and the value it
\* passed to setItineraryData
MkRun(ls, departureDate, tripEndDate) ==
    [pc |-> "start", location |-> ls, departureDate |-> departureDate,
     tripEndDate |-> tripEndDate, hotelsData |-> <<>>,
     activitiesData |-> <<>>, thrown |-> NullError, wrote |-> NoItinerary]

\* catch and finally after the step has made the page pg: setError(err.message),
\* setLoading(false)
ThrowKeepsLoading(pg, i, message) ==
    /\ page' = [pg EXCEPT !.error = message,
                          !.runs[i].pc = "done", !.runs[i].thrown = message,
                          !.completed = Append(@, i)]
    /\ itineraryData' = itineraryData
Throw(pg, i, message) ==
    /\ page' = [pg EXCEPT !.error = message, !.loading = FALSE,
                          !.runs[i].pc = "done", !.runs[i].thrown = message,
                          !.completed = Append(@, i)]
    /\ itineraryData' = itineraryData

\* setItineraryData(value), then finally: setLoading(false)
SetItineraryDataOnce(pg, i, value) ==
    /\ page' = [pg EXCEPT !.loading = FALSE,
                          !.runs[i].pc = "done", !.runs[i].wrote = value,
                          !.completed = Append(@, i)]
    /\ itineraryData' = IF itineraryData.status = "none" THEN value
                        ELSE itineraryData
SetItineraryData(pg, i, value) ==
    /\ page' = [pg EXCEPT !.loading = FALSE,
                          !.runs[i].pc = "done", !.runs[i].wrote = value,
                          !.completed = Append(@, i)]
    /\ itineraryData' = value

\* the update-existing path: merge the new flight into the stored days
UpdateExisting(pg, i, ls) ==
    \E existing \in {ls.existingItineraryData} :
        SetItineraryData(pg, i,
            [existing EXCEPT
                !.days = updatedDaysOf(existing.days, ls.optimalOutboundFlight,
                                       NoFlight),
                !.total_price = updatedTotalPrice(existing,
                                    ls.optimalOutboundFlight, NoFlight)])

\* hasAnyFlights, for a navigation that carries no flight arrays
hasAnyFlights(ls) == ~isDummyFlight(ls.optimalOutboundFlight)

\* outboundFlight: the optimal outbound flight unless it is a dummy
outboundFlightOf(ls) ==
    IF ~isDummyFlight(ls.optimalOutboundFlight)
    THEN ls.optimalOutboundFlight ELSE NoFlight

\* createDayByDayItinerary on the store as it is now, then setItineraryData
BuildAndStore(pg, i, hotel) ==
    \E run \in {pg.runs[i]} :
    \E r \in {createDayByDayItinerary(tripState, outboundFlightOf(run.location),
                  hotel, run.activitiesData, run.departureDate,
                  run.tripEndDate, NoFlight)} :
        IF r.threw
        THEN Throw(pg, i, "Invalid start date")
        ELSE SetItineraryData(pg, i,
                 [status |-> "ready", days |-> r.days, total_price |-> 0])

\* result.hotel when the backend is not asked: hotelsData[0] or null
FirstHotel(hotelsData) ==
    IF Len(hotelsData) > 0 THEN hotelsData[1] ELSE NoHotel

\* what /api/fetchItineraryData can answer: nothing usable, or data
FetchOutcomes ==
    { [hotels |-> <<>>, activities |-> <<>>],
      [hotels |-> <<Hotel1>>, activities |-> <<PoolAt(1)>>] }

\* what /api/generateOptimalItinerary can answer
OptimizeOutcomes == {"http error", "no combination", "no hotels", "ok"}

InitGenerate ==
    /\ tripState \in GenerateTripStates
    /\ args = IdleArgs
    /\ itineraryData = NoItinerary
    /\ rangeCall = IdleRange
    /\ optCall = IdleOpt
    /\ priceCall = IdlePrice
    /\ \E ls \in LocationStates :
          page = [mounted |-> TRUE, loading |-> TRUE, error |-> NullError,
                  location |-> ls, runs |-> <<>>, completed |-> <<>>]
    /\ matchCall = IdleMatch

\* the Re-optimize button is on screen
ReOptimizeShown ==
    /\ ~page.loading
    /\ page.error = NullError
    /\ itineraryData.status # "none"

\* the location.state values generateItinerary can be called with now: the
\* mount effect and the Re-optimize button call it with the current one, a
\* navigation rebuilds it with a new one and the effect calls it
CallableWith ==
    IF Len(page.runs) = 0 THEN {page.location}
    ELSE (LocationStates \ {page.location})
         \cup (IF ReOptimizeShown THEN {page.location} ELSE {})

\* generateItinerary from its first line to its first await, or to its end
GenerateItinerary ==
    /\ Len(page.runs) < MaxRuns
    /\ \E ls \in CallableWith :
       \E i \in {Len(page.runs) + 1} :
       \E departureDate \in {departureDateOf(tripState, ls)} :
       \E pg0 \in {[page EXCEPT !.location = ls, !.loading = TRUE,
                                !.error = NullError,
                                !.runs = Append(@, MkRun(ls, departureDate,
                                             tripEndDateOf(tripState, ls)))]} :
          IF ls.updateExistingItinerary
             /\ ls.existingItineraryData.status # "none"
          THEN UpdateExisting(pg0, i, ls)
          ELSE IF departureDate = NullDate
          THEN Throw(pg0, i, "Invalid departure date")
          ELSE IF ls.hasValidDestination
          THEN /\ page' = [pg0 EXCEPT !.runs[i].pc = "fetching"]
               /\ itineraryData' = itineraryData
          ELSE IF hasAnyFlights(ls)
          THEN /\ page' = [pg0 EXCEPT !.runs[i].pc = "optimizing"]
               /\ itineraryData' = itineraryData
          ELSE BuildAndStore(pg0, i, NoHotel)
    /\ UNCHANGED <<tripState, args, rangeCall, optCall, priceCall, matchCall>>

\* the chat or the results page rewrites the trip store
SaveTripState ==
    /\ Len(page.runs) < MaxRuns
    /\ \E ts \in GenerateTripStates \ {tripState} : tripState' = ts
    /\ UNCHANGED <<args, itineraryData, rangeCall, optCall, priceCall, page,
                   matchCall>>

\* the await of /api/fetchItineraryData ends; every failure continues with
\* empty hotelsData and activitiesData, and the call goes on to its next
\* await or to its end
FetchItineraryDataReturned ==
    /\ \E i \in 1..Len(page.runs), outcome \in FetchOutcomes :
          /\ page.runs[i].pc = "fetching"
          /\ \E pg \in {[page EXCEPT !.runs[i].hotelsData = outcome.hotels,
                                     !.runs[i].activitiesData =
                                         outcome.activities]} :
                IF hasAnyFlights(pg.runs[i].location)
                THEN /\ page' = [pg EXCEPT !.runs[i].pc = "optimizing"]
                     /\ itineraryData' = itineraryData
                ELSE BuildAndStore(pg, i, FirstHotel(outcome.hotels))
    /\ UNCHANGED <<tripState, args, rangeCall, optCall, priceCall, matchCall>>

\* the await of /api/generateOptimalItinerary ends
GenerateOptimalItineraryReturned ==
    /\ \E i \in 1..Len(page.runs), outcome \in OptimizeOutcomes :
          /\ page.runs[i].pc = "optimizing"
          /\ CASE outcome = "http error" ->
                      Throw(page, i, "Failed to generate itinerary")
               [] outcome = "no combination" ->
                      Throw(page, i,
                            "Unable to find a combination within the budget")
               [] outcome = "no hotels" ->
                      Throw(page, i, "Unable to find hotels or activities")
               [] OTHER ->
                      BuildAndStore(page, i,
                                    FirstHotel(page.runs[i].hotelsData))
    /\ UNCHANGED <<tripState, args, rangeCall, optCall, priceCall, matchCall>>

NextGenerate ==
    \/ GenerateItinerary
    \/ SaveTripState
    \/ FetchItineraryDataReturned
    \/ GenerateOptimalItineraryReturned

SpecGenerate == InitGenerate /\ [][NextGenerate]_vars

----------------------------------------------------------------------------
(* Properties of generateItinerary *)

Runs == page.runs

\* the invocation a step starts, 0 for a step that starts none
Started == IF Len(page'.runs) > Len(page.runs) THEN Len(page'.runs) ELSE 0

\* the start date string the invocation started by this step reads
StartUnparseable ==
    departureDateOf(tripState, page'.location) = NullDate

\* the invocation started by this step takes the update-existing path
TakesUpdatePath ==
    /\ page'.location.updateExistingItinerary
    /\ page'.location.existingItineraryData.status # "none"

WritersInOrder ==
    SelectSeq(page.completed, LAMBDA i : Runs[i].wrote # NoItinerary)

\* the invocation that started first completed last: the two overlapped
Overlapped == page.completed = <<2, 1>>

\* C12: overlapping invocations each run to their end, and itineraryData is
\* what the last invocation to complete with a result passed to
\* setItineraryData
C12_LastCompletedWins ==
    /\ \A i \in 1..Len(Runs) : Runs[i].pc \in {"fetching", "optimizing", "done"}
    /\ \A i \in 1..Len(Runs) :
          Runs[i].pc = "done" =>
              /\ \E k \in 1..Len(page.completed) : page.completed[k] = i
              /\ (Runs[i].thrown = NullError) = (Runs[i].wrote # NoItinerary)
    /\ LET w == WritersInOrder
       IN  IF Len(w) = 0
           THEN itineraryData = NoItinerary
           ELSE itineraryData = Runs[w[Len(w)]].wrote

\* two overlapping invocations wrote different itineraries
C12_Witness ==
    /\ Overlapped
    /\ Runs[1].wrote # NoItinerary
    /\ Runs[2].wrote # NoItinerary
    /\ Runs[1].wrote # Runs[2].wrote
    /\ itineraryData = Runs[1].wrote

\* C17: every invocation that found a parseable start date ends with an
\* itinerary and not with an Error
C17_OnlyBadDateIsFatal ==
    \A i \in 1..Len(Runs) :
        (Runs[i].pc = "done" /\ Runs[i].departureDate # NullDate) =>
            /\ Runs[i].thrown = NullError
            /\ Runs[i].wrote # NoItinerary


----------------------------------------------------------------------------
(* generateItinerary: matching the flights to the directions of the trip *)

\* a flight object as the matching reads it; ref tells objects apart (!==)
MkLeg(ref, flight, origin, destination, isOptimal) ==
    [nil |-> flight.nil, empty |-> flight.empty, id |-> flight.id,
     flightNumber |-> flight.flightNumber, airline |-> flight.airline,
     price |-> flight.price, origin |-> origin, destination |-> destination,
     departure |-> <<>>, arrival |-> <<>>, isOptimal |-> isOptimal,
     ref |-> ref]

\* null
NoLeg == MkLeg("null", NoFlight, <<>>, <<>>, FALSE)

UpperCase == {"A", "B", "C", "D", "F", "L"}

\* str.match(/([A-Z]{3})/)?.[1]: the first three capitals in a row, <<>> for none
RECURSIVE MatchCode(_)
MatchCode(str) ==
    IF Len(str) < 3 THEN <<>>
    ELSE IF str[1] \in UpperCase /\ str[2] \in UpperCase /\ str[3] \in UpperCase
    THEN SubSeq(str, 1, 3)
    ELSE MatchCode(Tail(str))

\* getFlightOrigin, <<>> for null
getFlightOrigin(flight) ==
    IF flight.nil THEN <<>>
    ELSE IF flight.origin # <<>> THEN flight.origin
    ELSE MatchCode(flight.departure)

\* getFlightDestination, <<>> for null
getFlightDestination(flight) ==
    IF flight.nil THEN <<>>
    ELSE IF flight.destination # <<>> THEN flight.destination
    ELSE MatchCode(flight.arrival)

\* the matching's locals: optimalOutboundFlight, optimalReturnFlight,
\* originCodeForMatching, destinationCodeForMatching
MkMatch(out, ret, oc, dc) == [out |-> out, ret |-> ret, oc |-> oc, dc |-> dc]

\* originCodeForMatching && destinationCodeForMatching
HasCodes(st) == st.oc # <<>> /\ st.dc # <<>>

\* flightOrigin === originCodeForMatching && flightDestination === destinationCodeForMatching
MatchesOutbound(flight, st) ==
    getFlightOrigin(flight) = st.oc /\ getFlightDestination(flight) = st.dc

\* flightOrigin === destinationCodeForMatching && flightDestination === originCodeForMatching
MatchesReturn(flight, st) ==
    getFlightOrigin(flight) = st.dc /\ getFlightDestination(flight) = st.oc

\* a missing code is filled from a flight
FillCodes(st, flight) ==
    [st EXCEPT !.oc = IF @ = <<>> THEN getFlightOrigin(flight) ELSE @,
               !.dc = IF @ = <<>> THEN getFlightDestination(flight) ELSE @]

\* outboundFlights?.[0] || tripState.flights?.[0] || tripState.optimalFlight
flightToCheck(in) ==
    IF Len(in.outboundFlights) > 0 THEN in.outboundFlights[1]
    ELSE IF Len(in.flights) > 0 THEN in.flights[1]
    ELSE in.optimalFlight

\* the codes: the trip store's, else taken from the flights
ResolveCodes(in) ==
    LET st0 == MkMatch(in.stateOutbound, in.stateReturn, in.originCode,
                       in.destinationCode)
        st1 == IF in.origin = <<>>
                  /\ (Len(in.outboundFlights) > 0 \/ Len(in.flights) > 0)
               THEN FillCodes(st0, flightToCheck(in)) ELSE st0
        st2 == IF ~HasCodes(st1) /\ Len(in.flights) > 0
               THEN FillCodes(st1, in.flights[1]) ELSE st1
    IN  IF ~HasCodes(st2) /\ ~in.optimalFlight.nil
        THEN FillCodes(st2, in.optimalFlight) ELSE st2

\* isLikelyReturn: the city names of the trip store against the flight's codes
isLikelyReturn(in, flight) ==
    /\ in.destination # <<>>
    /\ \/ /\ getFlightOrigin(flight) # <<>>
          /\ Includes(ToLowerCase(getFlightOrigin(flight)),
                      ToLowerCase(in.destination))
       \/ /\ getFlightDestination(flight) # <<>>
          /\ Includes(ToLowerCase(getFlightDestination(flight)),
                      ToLowerCase(in.origin))

\* tripState.optimalFlight as the outbound flight
FromStoreOutbound(in, st) ==
    IF st.out.nil /\ ~in.optimalFlight.nil
       /\ (IF HasCodes(st) THEN MatchesOutbound(in.optimalFlight, st)
           ELSE ~isLikelyReturn(in, in.optimalFlight))
    THEN [st EXCEPT !.out = in.optimalFlight] ELSE st

\* tripState.optimalFlight as the return flight
FromStoreReturn(in, st) ==
    IF st.ret.nil /\ ~in.optimalFlight.nil /\ in.optimalFlight # st.out
       /\ (IF HasCodes(st) THEN MatchesReturn(in.optimalFlight, st)
           ELSE isLikelyReturn(in, in.optimalFlight))
    THEN [st EXCEPT !.ret = in.optimalFlight] ELSE st

\* allFlightsToCheck
allFlightsToCheck(in) ==
    in.outboundFlights \o in.returnFlights
    \o (IF Len(in.outboundFlights \o in.returnFlights) > 0
        THEN in.outboundFlights \o in.returnFlights ELSE in.flights)
    \o in.flights

\* one turn of the loop over the flights flagged optimal
OptimalFlagStep(flight, st) ==
    IF HasCodes(st)
    THEN IF MatchesOutbound(flight, st) /\ st.out.nil
         THEN [st EXCEPT !.out = flight]
         ELSE IF MatchesReturn(flight, st) /\ st.ret.nil
         THEN [st EXCEPT !.ret = flight]
         ELSE st
    ELSE IF st.out.nil /\ ~isDummyFlight(flight)
         THEN [st EXCEPT !.out = flight]
         ELSE st

RECURSIVE OptimalFlagLoop(_, _)
OptimalFlagLoop(flights, st) ==
    IF flights = <<>> THEN st
    ELSE OptimalFlagLoop(Tail(flights),
             IF Head(flights).isOptimal THEN OptimalFlagStep(Head(flights), st)
             ELSE st)

\* one turn of the loop over all flights, dummies skipped
AllFlightsStep(flight, st) ==
    IF isDummyFlight(flight) THEN st
    ELSE IF MatchesOutbound(flight, st) /\ st.out.nil
    THEN [st EXCEPT !.out = flight]
    ELSE IF MatchesReturn(flight, st) /\ st.ret.nil
    THEN [st EXCEPT !.ret = flight]
    ELSE st

RECURSIVE AllFlightsLoop(_, _)
AllFlightsLoop(flights, st) ==
    IF flights = <<>> THEN st
    ELSE AllFlightsLoop(Tail(flights), AllFlightsStep(Head(flights), st))

\* the search over allFlightsToCheck
FromAllFlights(in, st) ==
    IF ~(st.out.nil \/ st.ret.nil) THEN st
    ELSE LET flagged == OptimalFlagLoop(allFlightsToCheck(in), st)
         IN  IF (flagged.out.nil \/ flagged.ret.nil) /\ HasCodes(flagged)
             THEN AllFlightsLoop(allFlightsToCheck(in), flagged)
             ELSE flagged

\* arr.find(f => f.optimalFlight || f.isOptimal) || arr[0]
OptimalOrFirst(arr) ==
    LET flagged == SelectSeq(arr, LAMBDA f : f.isOptimal)
    IN  IF Len(flagged) > 0 THEN flagged[1] ELSE arr[1]

\* the fallback to the outboundFlights and returnFlights arrays
FromArrays(in, st) ==
    [st EXCEPT
        !.out = IF @.nil /\ Len(in.outboundFlights) > 0
                THEN OptimalOrFirst(in.outboundFlights) ELSE @,
        !.ret = IF @.nil /\ Len(in.returnFlights) > 0
                THEN OptimalOrFirst(in.returnFlights) ELSE @]

\* one turn of the loop over the store's valid flights
ValidFlightStep(flight, st) ==
    [st EXCEPT
        !.out = IF @.nil /\ MatchesOutbound(flight, st) THEN flight ELSE @,
        !.ret = IF @.nil /\ MatchesReturn(flight, st) THEN flight ELSE @]

RECURSIVE ValidFlightLoop(_, _)
ValidFlightLoop(flights, st) ==
    IF flights = <<>> THEN st
    ELSE ValidFlightLoop(Tail(flights), ValidFlightStep(Head(flights), st))

\* the second valid flight as the return flight
SecondAsReturn(validFlights, st) ==
    LET others == SelectSeq(validFlights, LAMBDA f : f # st.out)
    IN  IF ~st.out.nil /\ st.ret.nil /\ Len(validFlights) > 1 /\ Len(others) > 0
           /\ \/ /\ getFlightOrigin(others[1]) = getFlightDestination(st.out)
                 /\ getFlightDestination(others[1]) = getFlightOrigin(st.out)
              \/ ~HasCodes(st)
        THEN [st EXCEPT !.ret = others[1]]
        ELSE st

\* the final fallback to tripState.flights
FromStoreFlights(in, st) ==
    LET validFlights == SelectSeq(in.flights, LAMBDA f : ~isDummyFlight(f))
        matched == IF HasCodes(st) THEN ValidFlightLoop(validFlights, st) ELSE st
        first == IF matched.out.nil
                 THEN [matched EXCEPT !.out = validFlights[1]] ELSE matched
    IN  IF Len(validFlights) = 0 THEN st ELSE SecondAsReturn(validFlights, first)

\* without any usable flight both selections are set to null
DropWithoutFlights(in, st) ==
    IF /\ isDummyFlight(st.out) /\ isDummyFlight(st.ret)
       /\ Len(in.outboundFlights) = 0 /\ Len(in.returnFlights) = 0
       /\ Len(in.flights) = 0
    THEN [st EXCEPT !.out = NoLeg, !.ret = NoLeg] ELSE st

\* optimalOutboundFlight and optimalReturnFlight when the matching ends
matchDirections(in) ==
    DropWithoutFlights(in,
        FromStoreFlights(in,
            FromArrays(in,
                FromAllFlights(in,
                    FromStoreReturn(in,
                        FromStoreOutbound(in, ResolveCodes(in)))))))

\* outboundFlight: the user's selection, else the matched flight, never a dummy
finalOutbound(in, st) ==
    IF ~isDummyFlight(in.selectedOutboundFlight) THEN in.selectedOutboundFlight
    ELSE IF ~isDummyFlight(st.out) THEN st.out
    ELSE NoLeg

\* returnFlight
finalReturn(in, st) ==
    IF ~isDummyFlight(in.selectedReturnFlight) THEN in.selectedReturnFlight
    ELSE IF in.hasReturnDate /\ ~isDummyFlight(st.ret) THEN st.ret
    ELSE NoLeg


STR_AAA == <<"A","A","A">>
STR_BBB == <<"B","B","B">>
STR_CCC == <<"C","C","C">>

\* sample flights: the trip runs from AAA to BBB
LegOut(ref, isOptimal) == MkLeg(ref, Flight1, STR_AAA, STR_BBB, isOptimal)
LegBack(ref, isOptimal) == MkLeg(ref, Flight2, STR_BBB, STR_AAA, isOptimal)
LegElsewhere(ref, isOptimal) == MkLeg(ref, Flight3, STR_CCC, STR_AAA, isOptimal)
LegDummy(ref, isOptimal) ==
    MkLeg(ref, MkFlight(<<"f","5">>, STR_FL123, STR_Airline, 1), STR_AAA,
          STR_BBB, isOptimal)
LegEmpty(ref) ==
    MkLeg(ref, [MkFlight(<<>>, <<>>, <<>>, 0) EXCEPT !.empty = TRUE], <<>>,
          <<>>, FALSE)
\* the codes only inside the departure and arrival texts
LegTexts(ref) ==
    [MkLeg(ref, Flight1, <<>>, <<>>, FALSE)
        EXCEPT !.departure = STR_AAA \o <<" ","1",":","0">>,
               !.arrival = <<"t","o"," ">> \o STR_BBB]

MatchInputs ==
    [originCode : {<<>>, STR_AAA},
     destinationCode : {<<>>, STR_BBB},
     origin : {<<>>},
     destination : {<<>>, <<"B","b","b">>},
     stateOutbound : {NoLeg, LegOut("so", TRUE)},
     stateReturn : {NoLeg},
     outboundFlights : {<<>>, <<LegElsewhere("o1", FALSE)>>,
                        <<LegDummy("o1", TRUE)>>},
     returnFlights : {<<>>, <<LegBack("r1", FALSE)>>},
     flights : {<<>>, <<LegElsewhere("t1", FALSE)>>,
                <<LegTexts("t1"), LegBack("t2", FALSE)>>,
                <<LegEmpty("t1"), LegDummy("t2", TRUE), LegOut("t3", TRUE)>>},
     optimalFlight : {NoLeg, LegOut("to", TRUE), LegBack("to", TRUE),
                      LegDummy("to", TRUE)},
     selectedOutboundFlight : {NoLeg, LegElsewhere("su", FALSE)},
     selectedReturnFlight : {NoLeg},
     hasReturnDate : BOOLEAN]

InitMatch ==
    /\ tripState = IdleTripState
    /\ args = IdleArgs
    /\ itineraryData = NoItinerary
    /\ rangeCall = IdleRange
    /\ optCall = IdleOpt
    /\ priceCall = IdlePrice
    /\ page = IdlePage
    /\ \E in \in MatchInputs :
          matchCall = [done |-> FALSE, in |-> in, matched |-> <<>>,
                       outboundFlight |-> NoLeg, returnFlight |-> NoLeg]

\* generateItinerary from the flights it is given to the two flights it hands
\* to createDayByDayItinerary
MatchDirections ==
    /\ ~matchCall.done
    /\ \E st \in {matchDirections(matchCall.in)} :
          matchCall' = [matchCall EXCEPT
                           !.done = TRUE,
                           !.matched = st,
                           !.outboundFlight = finalOutbound(matchCall.in, st),
                           !.returnFlight = finalReturn(matchCall.in, st)]
    /\ UNCHANGED <<tripState, args, itineraryData, rangeCall, optCall, priceCall,
                   page>>

NextMatch == MatchDirections

SpecMatch == InitMatch /\ [][NextMatch]_vars

----------------------------------------------------------------------------
(* Properties of the direction matching *)

MatchIn == matchCall.in

\* both codes are known before the matching looks at any flight, and neither
\* flight was handed over ready-made
CodesKnownNothingPassed ==
    /\ matchCall.done
    /\ MatchIn.originCode # <<>> /\ MatchIn.destinationCode # <<>>
    /\ MatchIn.stateOutbound.nil /\ MatchIn.stateReturn.nil

\* C15: with both codes known, the matched outbound flight runs from the
\* origin to the destination and the matched return flight runs back
C15_MatchedByDirection ==
    CodesKnownNothingPassed =>
        /\ ~matchCall.matched.out.nil =>
               /\ getFlightOrigin(matchCall.matched.out) = MatchIn.originCode
               /\ getFlightDestination(matchCall.matched.out)
                      = MatchIn.destinationCode
        /\ ~matchCall.matched.ret.nil =>
               /\ getFlightOrigin(matchCall.matched.ret)
                      = MatchIn.destinationCode
               /\ getFlightDestination(matchCall.matched.ret)
                      = MatchIn.originCode

\* C16: no dummy flight is the matched outbound or return flight
C16_NoDummyMatched ==
    matchCall.done =>
        /\ matchCall.matched.out.nil \/ ~isDummyFlight(matchCall.matched.out)
        /\ matchCall.matched.ret.nil \/ ~isDummyFlight(matchCall.matched.ret)


----------------------------------------------------------------------------
(* The cost summary of an assembled itinerary *)

\* a flight or hotel of the itinerary as the cost block reads it
PricedOf(x) == IF x.nil THEN NoPriced ELSE Priced(JSNumber(x.price))

\* a must-do as the cost block reads it: price may be absent
PricedMustDo(mustDo) ==
    IF mustDo.price = NullPrice THEN Priced(JSUndefined)
    ELSE Priced(JSNumber(mustDo.price))

\* the cost block of OptimizedItinerary on the itinerary held: flight and hotel
\* are those the days were built from, the return flight counts only when it
\* is the user's selection in the trip store, and the response carried no
\* single activity
RenderCostSummary ==
    /\ itineraryData.status = "ready"
    /\ ~priceCall.done
    /\ \E selectedReturnFlight \in {NoFlight, args.returnFlight} :
       \E mustDoActivities \in {[k \in 1..Len(tripState.mustDoActivities) |->
                                    PricedMustDo(tripState.mustDoActivities[k])]} :
       \E outboundFlightCost \in {extractPrice(PricedOf(args.flight))} :
       \E returnFlightCost \in {extractPrice(PricedOf(selectedReturnFlight))} :
       \E hotelsCost \in {extractPrice(PricedOf(args.hotel))} :
       \E activitiesCost \in {activitiesCostOf(NoPriced, mustDoActivities)} :
       \E flightsCost \in {JSAdd(outboundFlightCost, returnFlightCost)} :
          priceCall' =
              [outboundFlight |-> PricedOf(args.flight),
               returnFlight |-> PricedOf(selectedReturnFlight),
               finalHotel |-> PricedOf(args.hotel), activity |-> NoPriced,
               mustDoActivities |-> mustDoActivities, done |-> TRUE,
               outboundFlightCost |-> outboundFlightCost,
               returnFlightCost |-> returnFlightCost,
               flightsCost |-> flightsCost, hotelsCost |-> hotelsCost,
               activitiesCost |-> activitiesCost,
               totalCost |-> JSAdd(JSAdd(flightsCost, hotelsCost),
                                   activitiesCost)]
    /\ UNCHANGED <<tripState, args, itineraryData, rangeCall, optCall, page,
                   matchCall>>

NextTotal == CreateItinerary \/ RenderCostSummary

SpecTotal == InitAssembly /\ [][NextTotal]_vars

\* every item of every day, in order
RECURSIVE AllItems(_)
AllItems(days) ==
    IF days = <<>> THEN <<>> ELSE Head(days).items \o AllItems(Tail(days))

\* the price an item of the itinerary stands for: a flight's fare, an
\* activity's price, nothing for a placeholder; the hotel is counted apart
RealizedPrice(item) ==
    IF item.type \in {"flight", "activity"} /\ item.price # NullPrice
    THEN item.price ELSE 0

RECURSIVE SumRealized(_)
SumRealized(items) ==
    IF items = <<>> THEN 0
    ELSE RealizedPrice(Head(items)) + SumRealized(Tail(items))

\* the hotel's price, once, when the days show the hotel
RealizedHotel(items) ==
    LET hotels == SelectSeq(items, LAMBDA item : item.type = "hotel")
    IN  IF Len(hotels) > 0 THEN hotels[1].price ELSE 0

\* C18: the total cost shown is the sum of the prices of the flights, the
\* hotel and every activity item the days contain
C18_TotalIsSumOfRealizedItems ==
    priceCall.done =>
        priceCall.totalCost =
            JSNumber(SumRealized(AllItems(itineraryData.days))
                     + RealizedHotel(AllItems(itineraryData.days)))

----------------------------------------------------------------------------
(* The trip store: utils/tripState.js *)

\* the optimization weights, in percent; nil marks an object without them
NoWeights == [nil |-> TRUE, budget |-> 0, quality |-> 0, convenience |-> 0]
MkWeights(budget, quality, convenience) ==
    [nil |-> FALSE, budget |-> budget, quality |-> quality,
     convenience |-> convenience]

\* a preferences object; keyed tells whether it has the guidedTour and
\* categories keys
MkPreferences(keyed, guidedTour, categories, weights) ==
    [keyed |-> keyed, guidedTour |-> guidedTour, categories |-> categories,
     weights |-> weights]

\* { ...base, ...over } on preferences objects
SpreadPreferences(base, over) ==
    [keyed |-> base.keyed \/ over.keyed,
     guidedTour |-> IF over.keyed THEN over.guidedTour ELSE base.guidedTour,
     categories |-> IF over.keyed THEN over.categories ELSE base.categories,
     weights |-> IF over.weights.nil THEN base.weights ELSE over.weights]

NoFilters == [activityBudgetMax |-> NullPrice, budget |-> NullPrice]

NoRoute == [nil |-> TRUE, date |-> NoDateStr, returnDate |-> NoDateStr]
MkRoute(date, returnDate) ==
    [nil |-> FALSE, date |-> date, returnDate |-> returnDate]

\* { ...base, ...over } on routes: a key the later object lacks keeps the
\* earlier value
SpreadRoute(base, over) ==
    [nil |-> FALSE,
     date |-> IF over.date.kind # "none" THEN over.date ELSE base.date,
     returnDate |-> IF over.returnDate.kind # "none" THEN over.returnDate
                    ELSE base.returnDate]

MkStore(startDate, endDate, mustDo, preferences, filters, route, activities) ==
    [startDate |-> startDate, endDate |-> endDate,
     mustDoActivities |-> mustDo, preferences |-> preferences,
     filters |-> filters, route |-> route, activities |-> activities]

defaultTripState ==
    MkStore(NoDateStr, NoDateStr, <<>>,
            MkPreferences(TRUE, FALSE, <<>>, NoWeights), NoFilters, NoRoute,
            <<>>)

\* the stored state is the defaults overlaid by nextState; the preferences
\* are the default preferences overlaid by nextState's
saveTripState(nextState) ==
    [nextState EXCEPT
        !.preferences = SpreadPreferences(defaultTripState.preferences, @)]

\* a selection is upserted by its id
upsertItem(items, item) ==
    IF \E i \in 1..Len(items) : items[i] = item THEN items
    ELSE Append(items, item)

SameNameIgnoringCase(a, b) == ToLowerCase(a) = ToLowerCase(b)

\* recordMustDoActivities' loop: the new name is trimmed, and skipped when a
\* stored name equals it ignoring case
RECURSIVE PushTrimmed(_, _)
PushTrimmed(existing, activities) ==
    IF activities = <<>> THEN existing
    ELSE LET activity == Head(activities)
             normalisedName == Trim(activity.name)
             alreadyExists ==
                 \E i \in 1..Len(existing) :
                     SameNameIgnoringCase(existing[i].name, normalisedName)
         IN  PushTrimmed(
                 IF activity.name = <<>> \/ normalisedName = <<>> \/ alreadyExists
                 THEN existing
                 ELSE Append(existing, [activity EXCEPT !.name = normalisedName]),
                 Tail(activities))

recordMustDoActivities(state, activities) ==
    IF activities = <<>> THEN state
    ELSE saveTripState(
             [state EXCEPT !.mustDoActivities = PushTrimmed(@, activities)])

\* recordTripSelection's loop: the new name is compared as given
RECURSIVE PushCombined(_, _)
PushCombined(combined, activities) ==
    IF activities = <<>> THEN combined
    ELSE LET activity == Head(activities)
             exists ==
                 \E i \in 1..Len(combined) :
                     SameNameIgnoringCase(combined[i].name, activity.name)
         IN  PushCombined(
                 IF activity.name = <<>> \/ exists THEN combined
                 ELSE Append(combined, activity),
                 Tail(activities))

\* options carries mustDoActivities or not; a selection is nil or an id
recordTripSelection(state, category, selection, options) ==
    IF selection.nil \/ category = "" THEN state
    ELSE saveTripState(
             [state EXCEPT
                 !.activities = IF category = "activity"
                                THEN upsertItem(@, selection.id) ELSE @,
                 !.mustDoActivities =
                     IF options.hasMustDoActivities
                     THEN PushCombined(@, options.mustDoActivities) ELSE @])

updateTripRoute(state, route) ==
    IF route.nil THEN state
    ELSE saveTripState(
             [state EXCEPT
                 !.route = SpreadRoute(@, route),
                 !.startDate = IF route.date.kind # "none"
                               THEN route.date ELSE @,
                 !.endDate = IF route.returnDate.kind # "none"
                             THEN route.returnDate ELSE @])

\* the names the callers record
MustDoNames == {<<"a">>, <<"A">>, <<" ","a">>, <<"a","b">>, <<" ">>, <<>>}
NamedActivity(name) == MkActivity(name, <<>>, <<"2","h">>, NullPrice)
RecordedLists ==
    {<<>>} \cup { <<NamedActivity(n)>> : n \in MustDoNames }
           \cup { <<NamedActivity(n), NamedActivity(m)>> :
                      n \in {<<"a">>, <<" ","a">>}, m \in {<<"A">>, <<"a","b">>} }

SelectionOptions ==
    {[hasMustDoActivities |-> FALSE, mustDoActivities |-> <<>>]}
    \cup { [hasMustDoActivities |-> TRUE, mustDoActivities |-> activities] :
               activities \in RecordedLists }

Routes ==
    {NoRoute}
    \cup { MkRoute(d, r) : d \in {NoDateStr, IsoDateStr(1, 0), IsoDateStr(2, 0)},
                           r \in {NoDateStr, IsoDateStr(3, 0)} }

\* the arguments of createDayByDayItinerary, all absent, and the argument of
\* the latest updateTripRoute call
StoreArgs(route) ==
    [flight |-> NoFlight, hotel |-> NoHotel, allActivities |-> <<>>,
     startDate |-> NullDate, endDate |-> NullDate, returnFlight |-> NoFlight,
     total_price |-> 0, route |-> route]

InitStore ==
    /\ tripState = defaultTripState
    /\ args = StoreArgs(NoRoute)
    /\ itineraryData = NoItinerary
    /\ rangeCall = IdleRange
    /\ optCall = IdleOpt
    /\ priceCall = IdlePrice
    /\ page = IdlePage
    /\ matchCall = IdleMatch

RecordMustDoActivities ==
    /\ \E activities \in RecordedLists :
          tripState' = recordMustDoActivities(tripState, activities)
    /\ UNCHANGED <<args, itineraryData, rangeCall, optCall, priceCall, page,
                   matchCall>>

RecordTripSelection ==
    /\ \E category \in {"", "activity"},
          selection \in {[nil |-> TRUE, id |-> ""], [nil |-> FALSE, id |-> "s1"]},
          options \in SelectionOptions :
          tripState' = recordTripSelection(tripState, category, selection, options)
    /\ UNCHANGED <<args, itineraryData, rangeCall, optCall, priceCall, page,
                   matchCall>>

UpdateTripRoute ==
    /\ \E route \in Routes :
          /\ tripState' = updateTripRoute(tripState, route)
          /\ args' = StoreArgs(route)
    /\ UNCHANGED <<itineraryData, rangeCall, optCall, priceCall, page,
                   matchCall>>

NextStore ==
    \/ RecordMustDoActivities
    \/ RecordTripSelection
    \/ UpdateTripRoute
    \/ CreateItinerary

SpecStore == InitStore /\ [][NextStore]_vars

StoredNames ==
    [i \in 1..Len(tripState.mustDoActivities) |->
        ToLowerCase(Trim(tripState.mustDoActivities[i].name))]

\* equal, or one contains the other
NearDuplicate(a, b) == a = b \/ Includes(a, b) \/ Includes(b, a)

\* C21: after any sequence of recordMustDoActivities and
\* recordTripSelection(..., {mustDoActivities}) calls, no two entries of the
\* stored must-do list have trimmed, case-insensitive names that are equal or
\* of which one contains the other (names that trim to nothing set aside).
C21_NoNearDuplicateMustDos ==
    \A i, j \in 1..Len(StoredNames) :
        (i # j /\ StoredNames[i] # <<>> /\ StoredNames[j] # <<>>)
            => ~NearDuplicate(StoredNames[i], StoredNames[j])

\* the latest route update named a departure date and no return date
DateOnlyRoute ==
    /\ ~args.route.nil
    /\ args.route.date.kind = "iso"
    /\ args.route.returnDate.kind = "none"

\* C24: after an updateTripRoute call with a departure date and no return
\* date, the itinerary generated next has exactly one day, even when an
\* earlier route update stored a return date.
C24_DateOnlyRouteGivesOneDay ==
    [][(DateOnlyRoute /\ itineraryData.status = "none"
            /\ itineraryData'.status = "ready")
          => Len(itineraryData'.days) = 1]_vars

----------------------------------------------------------------------------
(* The convenience score of the finished itinerary *)

\* a flight of the cost summary: its duration in whole hours and its stops
NoScoredFlight == [nil |-> TRUE, duration |-> 0, stops |-> 0, price |-> 0]
MkScoredFlight(duration, stops, price) ==
    [nil |-> FALSE, duration |-> duration, stops |-> stops, price |-> price]

RECURSIVE SumOf(_, _)
SumOf(flights, field) ==
    IF flights = <<>> THEN 0
    ELSE Head(flights)[field] + SumOf(Tail(flights), field)

\* Math.round of the fraction num / den (den > 0): halves go up
RoundFraction(num, den) == (2 * num + den) \div (2 * den)

\* 100 * (0.4 * normalizedDuration + 0.3 * normalizedStops
\*        + 0.3 * normalizedPrice), as the fraction of these two
PenaltyNum(flights, totalPrice, maxPriceValue) ==
    40 * Min(SumOf(flights, "duration"), 24) * maxPriceValue
    + 180 * Min(SumOf(flights, "stops"), 4) * maxPriceValue
    + 720 * Min(totalPrice, maxPriceValue)
PenaltyDen(maxPriceValue) == 24 * maxPriceValue

calculateConvenienceScore(flights, totalPrice, maxPrice) ==
    IF flights = <<>> THEN 0
    ELSE LET maxPriceValue == IF maxPrice > 0 THEN maxPrice ELSE 2000
             den == PenaltyDen(maxPriceValue)
             num == PenaltyNum(flights, totalPrice, maxPriceValue)
         IN  Max(0, Min(100, RoundFraction(100 * den - num, den)))

\* [outboundFlight, returnFlight].filter(f => f)
flightsForScore(outboundFlight, returnFlight) ==
    (IF outboundFlight.nil THEN <<>> ELSE <<outboundFlight>>)
    \o (IF returnFlight.nil THEN <<>> ELSE <<returnFlight>>)

\* the largest of the flights' prices, the itinerary's total_price and 2000
summaryMaxPrice(outboundFlight, returnFlight, total_price) ==
    Max(Max(outboundFlight.price, returnFlight.price), Max(total_price, 2000))

ScoredFlights ==
    {NoScoredFlight, MkScoredFlight(3, 0, 300), MkScoredFlight(6, 1, 2400),
     MkScoredFlight(30, 5, 900)}

\* the cost summary about to be rendered; total_score is the backend's score
\* in percent, NullPrice when the backend sent none
InitScore ==
    /\ \E outboundFlight \in ScoredFlights, returnFlight \in ScoredFlights,
          totalCost \in {0, 500, 1200, 6000}, total_price \in {0, 4000},
          total_score \in {NullPrice, 87} :
          priceCall = [done |-> FALSE, outboundFlight |-> outboundFlight,
                       returnFlight |-> returnFlight, totalCost |-> totalCost,
                       total_price |-> total_price, total_score |-> total_score,
                       convenienceScore |-> 0]
    /\ tripState = IdleTripState
    /\ args = IdleArgs
    /\ itineraryData = NoItinerary
    /\ rangeCall = IdleRange
    /\ optCall = IdleOpt
    /\ page = IdlePage
    /\ matchCall = IdleMatch

RenderConvenienceScore ==
    /\ ~priceCall.done
    /\ priceCall' =
           [priceCall EXCEPT
               !.done = TRUE,
               !.convenienceScore =
                   IF priceCall.total_score # NullPrice
                   THEN priceCall.total_score
                   ELSE calculateConvenienceScore(
                            flightsForScore(priceCall.outboundFlight,
                                            priceCall.returnFlight),
                            priceCall.totalCost,
                            summaryMaxPrice(priceCall.outboundFlight,
                                       priceCall.returnFlight,
                                       priceCall.total_price))]
    /\ UNCHANGED <<tripState, args, itineraryData, rangeCall, optCall, page,
                   matchCall>>

NextScore == RenderConvenienceScore

SpecScore == InitScore /\ [][NextScore]_vars

\* 100 - round(100 * (0.4 * min(1, totalDuration / 24)
\*     + 0.3 * min(1, totalStops / 4) + 0.3 * min(1, totalPrice / maxPrice))),
\* clamped to [0, 100]
SpecifiedIndex(flights, totalPrice, maxPrice) ==
    Max(0, Min(100, 100 - RoundFraction(PenaltyNum(flights, totalPrice, maxPrice),
                                        PenaltyDen(maxPrice))))

ScoreFlights == flightsForScore(priceCall.outboundFlight, priceCall.returnFlight)
ScoreMaxPrice ==
    summaryMaxPrice(priceCall.outboundFlight, priceCall.returnFlight,
                    priceCall.total_price)

\* the penalty is half-way between two integers: there the direction of
\* rounding decides, and round(100 - p) and 100 - round(p) differ
PenaltyOnHalf ==
    (2 * PenaltyNum(ScoreFlights, priceCall.totalCost, ScoreMaxPrice))
        % (2 * PenaltyDen(ScoreMaxPrice)) = PenaltyDen(ScoreMaxPrice)

Calculated == priceCall.done /\ priceCall.total_score = NullPrice

\* C22: calculateConvenienceScore returns 100 - round(100 * (0.4 *
\* min(1, totalDuration / 24) + 0.3 * min(1, totalStops / 4) + 0.3 *
\* min(1, totalPrice / maxPrice))), clamped to [0, 100], for every input,
\* the empty flight list included (penalties half-way between two integers
\* set aside).
C22_ScoreIsTheSpecifiedIndex ==
    (Calculated /\ ~PenaltyOnHalf)
        => priceCall.convenienceScore =
               SpecifiedIndex(ScoreFlights, priceCall.totalCost, ScoreMaxPrice)

\* for a flight list that is not empty the score is the specified index
ScoredFlightsGetTheIndex ==
    (Calculated /\ ~PenaltyOnHalf /\ ScoreFlights # <<>>)
        => priceCall.convenienceScore =
               SpecifiedIndex(ScoreFlights, priceCall.totalCost, ScoreMaxPrice)

----------------------------------------------------------------------------
(* Regular activities across the days *)

\* the days on which the pool's regular activity named title is placed
DaysHolding(title) ==
    { d \in 1..Len(Days) :
        \E i \in 1..Len(Days[d].items) :
            /\ IsRegularItem(Days[d].items[i])
            /\ Days[d].items[i].title = title }

\* C23: no regular activity of the pool is placed on more than one itinerary
\* day.
C23_RegularActivityOnOneDay ==
    Ready => \A k \in 1..Len(FilteredPool) :
                 Cardinality(DaysHolding(FilteredPool[k].name)) <= 1

----------------------------------------------------------------------------
(* The first day of the window *)

\* C29: whenever the start date parses, createDayByDayItinerary returns at
\* least one day and its first day is dated the start date, including when
\* the resolved end date is earlier than the start date.
C29_FirstDayIsTheStartDate ==
    (Ready /\ ~IsInvalidDate(StartObj))
        => /\ Len(Days) >= 1
           /\ Days[1].dateObj = StartObj
           /\ Days[1].date = formatDate(StartObj)

\* the same, for windows whose resolved end is not earlier than the start
FirstDayIsTheStartDateForward ==
    (Ready /\ ~IsInvalidDate(StartObj) /\ ~(EndObj # NullDate /\ EndObj < StartObj))
        => /\ Len(Days) >= 1
           /\ Days[1].dateObj = StartObj

----------------------------------------------------------------------------
(* The total price across update steps *)

\* the price of the flight item that a merged flight takes the place of: 0
\* when it takes the place of a placeholder or of nothing
ReplacedPrice(items, flightItemIndex) ==
    IF flightItemIndex >= 1 /\ items[flightItemIndex].type = "flight"
           /\ items[flightItemIndex].price # NullPrice
    THEN items[flightItemIndex].price
    ELSE 0

ReplacedOutboundPrice(existingDays, newOutboundFlight) ==
    IF ~newOutboundFlight.nil /\ Len(existingDays) > 0
    THEN ReplacedPrice(existingDays[1].items,
             FindIndex(existingDays[1].items, LAMBDA item :
                 \/ item.type = "flight"
                 \/ (item.type = "activity" /\ item.title = STR_FlightNeeded)))
    ELSE 0

ReplacedReturnPrice(days, newReturnFlight) ==
    IF ~newReturnFlight.nil /\ Len(days) > 1
    THEN ReplacedPrice(days[Len(days)].items,
             FindIndex(days[Len(days)].items, LAMBDA item :
                 \/ item.type = "flight"
                 \/ (item.type = "activity"
                     /\ (item.title = STR_ReturnFlightNeeded
                         \/ item.title = STR_FlightNeeded))))
    ELSE 0

\* the step of the update-existing path that merges these two flights
UpdateStepWith(newOutboundFlight, newReturnFlight) ==
    /\ itineraryData.status = "ready"
    /\ itineraryData' =
           [itineraryData EXCEPT
               !.days = updatedDaysOf(itineraryData.days, newOutboundFlight,
                                      newReturnFlight),
               !.total_price = updatedTotalPrice(itineraryData,
                                   newOutboundFlight, newReturnFlight)]

MergedPrice(flight) == IF flight.nil THEN 0 ELSE flight.price

\* C28: an update-existing step leaves total_price = previous total - the
\* replaced flights' prices + the new flights' prices, so that replacing a
\* flight item, or applying the same update again, never counts a flight's
\* price more than once.
C28_TotalTracksReplacedFlights ==
    [][\A newOutboundFlight \in {NoFlight, Flight3},
          newReturnFlight \in {NoFlight, Flight3} :
          UpdateStepWith(newOutboundFlight, newReturnFlight)
              => itineraryData'.total_price =
                     itineraryData.total_price
                     - ReplacedOutboundPrice(itineraryData.days, newOutboundFlight)
                     - ReplacedReturnPrice(itineraryData.days, newReturnFlight)
                     + MergedPrice(newOutboundFlight)
                     + MergedPrice(newReturnFlight)]_vars

----------------------------------------------------------------------------
(* One flight for each direction *)

\* two legs are the same flight candidate: the same flight id, whichever
\* copy of it each list holds
SameCandidate(a, b) == ~a.nil /\ ~b.nil /\ a.id # <<>> /\ a.id = b.id

\* C25: the direction matching never selects the same flight candidate as
\* both the outbound and the return flight of one itinerary.
C25_OutboundAndReturnDiffer ==
    matchCall.done
        => /\ ~SameCandidate(matchCall.matched.out, matchCall.matched.ret)
           /\ ~SameCandidate(matchCall.outboundFlight, matchCall.returnFlight)

\* the two selections are never one and the same object
OutboundAndReturnAreTwoObjects ==
    matchCall.done
        => (matchCall.outboundFlight.nil \/ matchCall.returnFlight.nil
            \/ matchCall.outboundFlight.ref # matchCall.returnFlight.ref)

----------------------------------------------------------------------------
(* The itinerary held once every invocation has ended *)

\* no invocation of generateItinerary is in flight
AllCompleted ==
    Len(Runs) >= 1 /\ \A i \in 1..Len(Runs) : Runs[i].pc = "done"

\* the invocation started last
LatestRun == Runs[Len(Runs)]

\* C26: once every in-flight invocation of generateItinerary has completed,
\* the held itineraryData is the result of the invocation started last.
C26_LatestStartedWins ==
    (AllCompleted /\ LatestRun.wrote # NoItinerary)
        => itineraryData = LatestRun.wrote

----------------------------------------------------------------------------
(* Preferences, budget and the optimize request *)

\* the budget ceiling generateItinerary sends
DefaultUserBudget == 5000

\* { budget: 0.33, quality: 0.33, convenience: 0.34 }, in percent
EqualWeights == MkWeights(33, 33, 34)
BudgetFirst == MkWeights(60, 20, 20)

\* an object holding the three weights and nothing else
WeightsOnly(weights) == MkPreferences(FALSE, FALSE, <<>>, weights)

\* the first source holding three numeric weights: location.state, the trip
\* store (the whole stored preferences object), localStorage, the default
getInitialPreferences(locationPreferences, state, travelPreferences) ==
    IF ~locationPreferences.nil THEN WeightsOnly(locationPreferences)
    ELSE IF ~state.preferences.weights.nil THEN state.preferences
    ELSE IF ~travelPreferences.nil THEN WeightsOnly(travelPreferences)
    ELSE WeightsOnly(EqualWeights)

\* the effect on [preferences]: the page's preferences object is stored as the
\* store's preferences when the stored weights differ from it
savePreferencesEffect(state, preferences) ==
    IF state.preferences.weights # preferences.weights
    THEN saveTripState([state EXCEPT !.preferences = preferences])
    ELSE state

\* the categories of partial join the stored ones, trimmed and in lower case
RECURSIVE MergeCategories(_, _)
MergeCategories(mergedCategories, categories) ==
    IF categories = <<>> THEN mergedCategories
    ELSE LET category == ToLowerCase(Trim(Head(categories)))
         IN  MergeCategories(
                 IF Trim(Head(categories)) = <<>>
                    \/ \E i \in 1..Len(mergedCategories) :
                           mergedCategories[i] = category
                 THEN mergedCategories
                 ELSE Append(mergedCategories, category),
                 Tail(categories))

\* partial carries guidedTour or not, and a list of categories
updateTripPreferences(state, partial) ==
    saveTripState(
        [state EXCEPT
            !.preferences =
                [keyed |-> TRUE,
                 guidedTour |-> IF partial.hasGuidedTour THEN partial.guidedTour
                                ELSE @.guidedTour,
                 categories |-> MergeCategories(@.categories, partial.categories),
                 weights |-> @.weights]])

updateTripFilters(state, partial) ==
    saveTripState([state EXCEPT !.filters = partial])

\* Number(String(amount).replace(/[^0-9.]/g, '')) for a text without a
\* decimal point: the number its digits spell, 0 for no digit
RECURSIVE DigitsToNumber(_, _)
DigitsToNumber(s, acc) ==
    IF s = <<>> THEN acc
    ELSE DigitsToNumber(Tail(s),
             IF \E d \in 1..10 : Digits[d] = Head(s)
             THEN 10 * acc + DigitValue(Head(s)) ELSE acc)

recordBudgetConstraint(state, amount) ==
    LET numeric == IF amount.t = "number" THEN amount.n
                   ELSE DigitsToNumber(amount.s, 0)
    IN  IF numeric <= 0 THEN state
        ELSE updateTripFilters(state,
                 [activityBudgetMax |-> numeric, budget |-> numeric])

\* formattedPreferences: the page's three weights
formattedPreferences(preferences) == preferences.weights

Amounts ==
    {JSNumber(0), JSNumber(3000), JSString(<<"$","5","0","0","0">>),
     JSString(<<"n","o">>)}

Partials ==
    { [hasGuidedTour |-> g, guidedTour |-> g, categories |-> c] :
        g \in BOOLEAN, c \in {<<>>, <<STR_museum>>, <<<<" ","F","o","o","d">>>>} }

InitSettings ==
    /\ tripState = defaultTripState
    /\ args = IdleArgs
    /\ itineraryData = NoItinerary
    /\ rangeCall = IdleRange
    /\ optCall = IdleOpt
    /\ priceCall = IdlePrice
    /\ page = [mounted |-> FALSE, preferences |-> WeightsOnly(NoWeights),
               travelPreferences |-> NoWeights, effectPending |-> FALSE]
    /\ matchCall = IdleMatch

\* the chat records activity preferences
UpdateTripPreferences ==
    /\ \E partial \in Partials :
          tripState' = updateTripPreferences(tripState, partial)
    /\ UNCHANGED <<args, itineraryData, rangeCall, optCall, priceCall, page,
                   matchCall>>

\* the chat records a budget
RecordBudgetConstraint ==
    /\ \E amount \in Amounts :
          tripState' = recordBudgetConstraint(tripState, amount)
    /\ UNCHANGED <<args, itineraryData, rangeCall, optCall, priceCall, page,
                   matchCall>>

\* the page mounts: useState(getInitialPreferences()), the effect is due
MountPage ==
    /\ ~page.mounted
    /\ \E locationPreferences \in {NoWeights, BudgetFirst} :
          page' = [page EXCEPT
                      !.mounted = TRUE,
                      !.preferences =
                          getInitialPreferences(locationPreferences, tripState,
                                                page.travelPreferences),
                      !.effectPending = TRUE]
    /\ UNCHANGED <<tripState, args, itineraryData, rangeCall, optCall,
                   priceCall, matchCall>>

\* PreferencesModal onSave: setPreferences(newPreferences) and localStorage
PreferencesModalSave ==
    /\ page.mounted
    /\ \E newPreferences \in {EqualWeights, BudgetFirst} \ {page.preferences.weights} :
          page' = [page EXCEPT !.preferences = WeightsOnly(newPreferences),
                               !.travelPreferences = newPreferences,
                               !.effectPending = TRUE]
    /\ UNCHANGED <<tripState, args, itineraryData, rangeCall, optCall,
                   priceCall, matchCall>>

\* the effect that persists the weights runs
SavePreferencesEffect ==
    /\ page.mounted /\ page.effectPending
    /\ tripState' = savePreferencesEffect(tripState, page.preferences)
    /\ page' = [page EXCEPT !.effectPending = FALSE]
    /\ UNCHANGED <<args, itineraryData, rangeCall, optCall, priceCall,
                   matchCall>>

\* the body generateItinerary posts to /api/generateOptimalItinerary
PostOptimizeRequest ==
    /\ page.mounted /\ ~optCall.done
    /\ optCall' = [done |-> TRUE,
                   preferences |-> formattedPreferences(page.preferences),
                   userBudget |-> DefaultUserBudget]
    /\ UNCHANGED <<tripState, args, itineraryData, rangeCall, priceCall, page,
                   matchCall>>

NextSettings ==
    \/ UpdateTripPreferences
    \/ RecordBudgetConstraint
    \/ MountPage
    \/ PreferencesModalSave
    \/ SavePreferencesEffect
    \/ PostOptimizeRequest

SpecSettings == InitSettings /\ [][NextSettings]_vars

\* the step is a run of the effect that persists the weights
EffectRuns == page.effectPending /\ ~page'.effectPending

\* C27: persisting the optimization weights to the trip store leaves the
\* stored activity category preferences and the guidedTour flag unchanged.
C27_WeightsLeaveActivityPreferences ==
    [][EffectRuns =>
          /\ tripState'.preferences.categories = tripState.preferences.categories
          /\ tripState'.preferences.guidedTour = tripState.preferences.guidedTour]_vars

\* the step posts the optimize request
RequestPosted == ~optCall.done /\ optCall'.done

\* C30: the userBudget ceiling sent with the optimize request equals the
\* budget the user recorded via recordBudgetConstraint, whenever one is stored.
C30_RequestCarriesRecordedBudget ==
    [][(RequestPosted /\ tripState.filters.budget # NullPrice)
          => optCall'.userBudget = tripState.filters.budget]_vars

====
